---- MODULE Spec2Model ----
(***************************************************************************)
(* A model of the client-side synchronization core of the two-party chat   *)
(* client: the useChat hook of src/src/hooks/useChat.ts (change feed,      *)
(* delivery/read tracker, pagination, presence) and the scheduler and      *)
(* edit-history code of the hook's later revision, src/unnamed/part_010.   *)
(*                                                                         *)
(* The document store is an external collaborator.  It is modelled by its  *)
(* contents (store, statusDoc, ...) and by the requests that the hook has  *)
(* issued and that the store has not yet answered.  Every awaited request  *)
(* is a suspension point: the request is issued in one step and answered   *)
(* (applied, or rejected) in a later one.                                  *)
(***************************************************************************)
EXTENDS Integers, Sequences, FiniteSets, TLC

\* ------------------------------------------------------------------------
\* Participants (types User) and bounds of the model
\* ------------------------------------------------------------------------
CurrentUser == "A"
Peer == "B"

\* Ids and creation times carried by the changes of the free change feed.
MaxFeedId == 3
MaxFeedTs == 2
\* Presence writes that may be outstanding at once, and live heartbeat timers.
MaxStatusInFlight == 3
MaxTimers == 2
\* Scheduler: the clock's last day, the latest target day of a new schedule,
\* the messages one schedule may cause, the runs suspended at once, the skip
\* updates the store may apply.
MaxDay == 3
MaxSchedDay == 2
MaxSends == 2
MaxTasks == 2
MaxSkips == 2
\* Editing: the edits of one message.
MaxEdits == 3
\* Pagination: the largest static store, the store reads one run may issue,
\* the page fetches that may be outstanding at once.
MaxStore == 45
MaxReads == 4
MaxLoadsInFlight == 2

\* Scroll-to-message: the sizes of a small and of a deep static store.
ShallowStore == 60
DeepStore == 420

\* Read tracking: the messages of the store, the read-ack batches that may be
\* outstanding at once.
MaxReceiptDocs == 2
MaxAckDocs == 4
MaxFeedStore == 13
MaxBatches == 2

\* Scroll-to-message over a collection that grows: its largest size.
MaxLiveStore == 4

\* Subscriptions one hook instance creates, runs of its initializeChat effect
MaxSubscriptions == 3
MaxEffectRuns == 2

\* Typing writes in flight, auto-clear timers pending, typing = true writes of
\* one burst of keystrokes
MaxTypingInFlight == 3
MaxTypingTimers == 3
MaxTrueWrites == 2

\* The presence clock's last value
MaxPresenceClock == 5

\* The freshness window of a presence record, 30000 ms, in periods of 10 s
FreshnessWindow == 3

\* Schedule requests: time slots of a day, the last day a request can name,
\* the clock's last slot
SlotsPerDay == 2
MaxRequestDay == 1
MaxRequestClock == 3

\* Page sizes of the hook
InitialLimit == 10
LoadMoreLimit == 30
\* Scroll-to-message: the context window, the batch size and the attempts of
\* the fallback walk
ContextLimit == 150
BatchLimit == 50
MaxAttempts == 8

FeedIds == 1..MaxFeedId
FeedTs == 1..MaxFeedTs

\* ------------------------------------------------------------------------
\* State
\* ------------------------------------------------------------------------
VARIABLES
  messages,                       \* useState<Message[]>: the local list
  isOnlineRef,                    \* local presence
  connectionStateRef,             \* "connected" | "disconnected" | "reconnecting"
  pendingMessagesToMarkReadRef,   \* the pending-read set (message ids)
  markReadTimeoutRef,             \* TRUE while the 300 ms flush timer is armed
  deliveredInFlight,              \* ids with a delivered = true write not yet answered
  documentHidden,                 \* document.hidden
  isInitializedRef,               \* the presence effect has run
  isTypingRef,                    \* local typing flag
  heartbeatTimers,                \* number of live setInterval(sendHeartbeat) timers
  heartbeatRefLive,               \* heartbeatIntervalRef names a live timer
  statusQueue,                    \* presence writes issued and not yet answered, in order
  statusDoc,                      \* the participant's PresenceRecord in the store
  sinceHide,                      \* observation: what happened since the last hide event
  scheduledDoc,                   \* one document of the scheduledMessages collection
  schedOrig,                      \* observation: that document as it was created
  schedSends,                     \* messages the scheduler has created for it
  schedSkips,                     \* custom-day skip updates the store has applied to it
  schedTasks,                     \* scheduler runs suspended at an await
  now,                            \* the clock, in days
  editDoc,                        \* one message document: its text and editHistory
  editTasks,                      \* editMessage calls suspended at an await
  editClock,                      \* the clock new Date() reads, in edits
  liveBefore,                     \* observation: the text each applied edit replaced
  store,                          \* the messages collection, oldest first
  pagination,                     \* useState<PaginationState>
  closurePagination,              \* pagination as the callbacks of the last render see it
  loading,                        \* useState(true)
  initLoad,                       \* loadInitialMessages: "idle" | "reading" | "done" | "failed"
  loadMoreReqs,                   \* cursors of the page fetches not yet answered
  lastLoadCooldown,               \* MessageList: lastLoadTimeRef is less than 1 s old
  storeReads,                     \* observation: getDocs calls issued
  batchesInFlight,                \* read-ack batches committed and not yet answered, in order
  scroll,                         \* the loadMessagesUntil call and where it is suspended
  messageListenerRef,             \* 0 (null) or the subscription whose unsubscribe it holds
  isSettingUpListenerRef,         \* setupMessageListener is running
  subscriptions,                  \* every onSnapshot subscription created, by number
  retryTimers,                    \* pending 2 s timers of the listener's error callback
  initRuns,                       \* runs of the initializeChat effect and where each stands
  liveRun,                        \* the run whose isMounted is true, 0 after unmount
  presenceCleanupDone,            \* the cleanup of the presence effect has run
  typingTasks,                    \* typing writes issued and not yet answered, in order
  typingTimers,                   \* pending 2 s auto-clear timers
  typingTimeoutLive,              \* typingTimeoutRef names a pending timer
  trueWrites,                     \* observation: typing = true writes issued since the last clear
  presenceClock,                  \* the clock, in heartbeat periods of 10 s
  peerStatusDoc,                  \* the peer's PresenceRecord in the store
  peerSurfaced,                   \* userStatuses[peer]: what the UI shows of the peer
  requestClock,                   \* the local wall clock, in time slots
  tzOffset,                       \* local time minus UTC, in time slots
  scheduledCollection,            \* documents of scheduledMessages added by requests
  scheduleAdds,                   \* addDoc calls of scheduleMessage not yet answered
  reconnectionTimeoutRef,         \* TRUE while the 5 s retry timer of a recovery is armed
  reportedHidden,                 \* observation: peer ids the feed reported to a hidden tab
  lastOp                          \* observation: the operation that took the last step

feedVars == <<messages>>
connVars == <<isOnlineRef, connectionStateRef>>
receiptVars == <<pendingMessagesToMarkReadRef, markReadTimeoutRef, deliveredInFlight>>
presenceVars == <<documentHidden, isInitializedRef, isTypingRef, heartbeatTimers,
                  heartbeatRefLive, statusQueue, statusDoc, sinceHide>>
schedVars == <<scheduledDoc, schedOrig, schedSends, schedSkips, schedTasks, now>>
editVars == <<editDoc, editTasks, editClock, liveBefore>>
pageVars == <<store, pagination, closurePagination, loading, initLoad, loadMoreReqs,
              lastLoadCooldown, storeReads>>
scrollVars == <<scroll>>
batchVars == <<batchesInFlight>>
listenerVars == <<messageListenerRef, isSettingUpListenerRef, subscriptions, retryTimers,
                  initRuns, liveRun, presenceCleanupDone>>
typingVars == <<typingTasks, typingTimers, typingTimeoutLive, trueWrites>>
peerVars == <<presenceClock, peerStatusDoc, peerSurfaced>>
requestVars == <<requestClock, tzOffset, scheduledCollection, scheduleAdds>>
recoveryVars == <<reconnectionTimeoutRef>>
obsVars == <<reportedHidden>>
vars == <<feedVars, connVars, receiptVars, presenceVars, schedVars, editVars, pageVars,
          scrollVars, batchVars, listenerVars, typingVars, peerVars,
          requestVars,
          recoveryVars,
          obsVars, lastOp>>

\* What the handlers of one component leave alone.
OutsideFeed ==
  UNCHANGED <<presenceVars, schedVars, editVars, pageVars, scrollVars, batchVars,
              listenerVars, typingVars, peerVars,
              requestVars,
              recoveryVars>>
OutsidePresence ==
  UNCHANGED <<feedVars, receiptVars, schedVars, editVars, pageVars, scrollVars, batchVars,
              listenerVars, typingVars, peerVars,
              requestVars,
              recoveryVars,
              obsVars>>
OutsideScheduler ==
  UNCHANGED <<feedVars, connVars, receiptVars, presenceVars, editVars, pageVars, scrollVars, batchVars,
              listenerVars, typingVars, peerVars,
              requestVars,
              recoveryVars,
              obsVars>>
OutsideEdit ==
  UNCHANGED <<feedVars, connVars, receiptVars, presenceVars, schedVars, pageVars, scrollVars, batchVars,
              listenerVars, typingVars, peerVars,
              requestVars,
              recoveryVars,
              obsVars>>
OutsidePaging ==
  UNCHANGED <<connVars, deliveredInFlight, presenceVars, schedVars, editVars, scrollVars,
              batchVars,
              listenerVars, typingVars, peerVars,
              requestVars,
              recoveryVars,
              obsVars>>
OutsideScroll ==
  UNCHANGED <<connVars, receiptVars, presenceVars, schedVars, editVars, store,
              closurePagination, loading, initLoad, loadMoreReqs, lastLoadCooldown,
              batchVars,
              listenerVars, typingVars, peerVars,
              requestVars,
              recoveryVars,
              obsVars>>
OutsideStore ==
  UNCHANGED <<connVars, receiptVars, presenceVars, schedVars, editVars, closurePagination,
              loading, initLoad, loadMoreReqs, lastLoadCooldown, batchVars,
              listenerVars, typingVars, peerVars,
              requestVars,
              recoveryVars,
              obsVars>>
OutsideReceipts ==
  UNCHANGED <<feedVars, presenceVars, schedVars, editVars, pagination, closurePagination,
              loading, initLoad, loadMoreReqs, lastLoadCooldown, storeReads, scrollVars,
              listenerVars, typingVars, peerVars,
              requestVars,
              recoveryVars,
              obsVars>>

\* Observation values
Op(name) ==
  [op |-> name, replay |-> FALSE, skipped |-> FALSE, rearmed |-> FALSE, ids |-> {},
   removed |-> {}]
NoOp == Op("none")
NoSchedule == [exists |-> FALSE]
NoHide == [hidden |-> FALSE, lost |-> FALSE, hbInFlight |-> FALSE]

\* ------------------------------------------------------------------------
\* Sequences
\* ------------------------------------------------------------------------
Ids(list) == {list[i].id : i \in 1..Len(list)}

\* Array.prototype.findIndex(m => m.id === id); 0 stands for -1.
FindIndex(list, id) ==
  IF \E i \in 1..Len(list) : list[i].id = id
  THEN CHOOSE i \in 1..Len(list) :
         /\ list[i].id = id
         /\ \A j \in 1..(i - 1) : list[j].id # id
  ELSE 0

\* Array.prototype.splice(i, 1)
RemoveAt(list, i) == SubSeq(list, 1, i - 1) \o SubSeq(list, i + 1, Len(list))

\* Array.prototype.sort((a, b) => a.timestamp - b.timestamp): the sort is
\* stable, so an entry's place is the number of entries that are earlier, or
\* as early and in front of it.
SortByTimestamp(list) ==
  LET n == Len(list)
      before(i) == {j \in 1..n : \/ list[j].timestamp < list[i].timestamp
                                 \/ (list[j].timestamp = list[i].timestamp /\ j < i)}
      place == [i \in 1..n |-> Cardinality(before(i)) + 1]
  IN [k \in 1..n |-> list[CHOOSE i \in 1..n : place[i] = k]]

IsSortedByTs(list) ==
  \A i \in 1..Len(list) : \A j \in 1..Len(list) :
    i < j => list[i].timestamp <= list[j].timestamp

NoDuplicateIds(list) ==
  \A i \in 1..Len(list) : \A j \in 1..Len(list) :
    i # j => list[i].id # list[j].id

\* ------------------------------------------------------------------------
\* Change Feed Client: the onSnapshot handler of setupMessageListener
\* ------------------------------------------------------------------------

\* One docChange applied to the working copy (updatedMessages, hasChanges).
\* acc = [list, changed].
AddedNoCheck(acc, message) == [list |-> Append(acc.list, message), changed |-> TRUE]

ApplyAdded(acc, message) ==
  IF FindIndex(acc.list, message.id) = 0
  THEN [list |-> Append(acc.list, message), changed |-> TRUE]
  ELSE acc

ApplyModified(acc, message) ==
  LET i == FindIndex(acc.list, message.id) IN
  IF i # 0
  THEN [list |-> [acc.list EXCEPT ![i] = message], changed |-> TRUE]
  ELSE [list |-> Append(acc.list, message), changed |-> TRUE]

ApplyRemoved(acc, message) ==
  LET i == FindIndex(acc.list, message.id) IN
  IF i # 0
  THEN [list |-> RemoveAt(acc.list, i), changed |-> TRUE]
  ELSE acc

ApplyChange(acc, change) ==
  CASE change.type = "added" -> ApplyAdded(acc, change.doc)
    [] change.type = "modified" -> ApplyModified(acc, change.doc)
    [] change.type = "removed" -> ApplyRemoved(acc, change.doc)

RECURSIVE ApplyChanges(_, _)
ApplyChanges(acc, changes) ==
  IF changes = <<>> THEN acc
  ELSE ApplyChanges(ApplyChange(acc, Head(changes)), Tail(changes))

SortIfChanged(acc) == IF acc.changed THEN SortByTimestamp(acc.list) ELSE acc.list

SkipSort(acc) == acc.list

\* The list the setMessages updater returns.
FinishList(acc) == SortIfChanged(acc)

UpdatedMessages(prevMessages, changes) ==
  FinishList(ApplyChanges([list |-> prevMessages, changed |-> FALSE], changes))

\* The delivery/read handling runs for every change, whatever its type.
PeerDocs(changes) ==
  {changes[i].doc : i \in {j \in 1..Len(changes) : changes[j].doc.sender # CurrentUser}}

DeliveredWrites(changes) == {d.id : d \in {x \in PeerDocs(changes) : ~x.delivered}}

\* connSeen is the connection state the updater reads: React runs the updater
\* either eagerly inside setMessages (before the handler marks the connection
\* healthy) or at the next render (after it).
ReadEnqueues(changes, connSeen) ==
  IF isOnlineRef /\ connSeen = "connected"
  THEN {d.id : d \in {x \in PeerDocs(changes) : ~x.read}}
  ELSE {}

OnSnapshot(changes, eager) ==
  LET connSeen == IF eager THEN connectionStateRef ELSE "connected"
      enq == ReadEnqueues(changes, connSeen)
  IN /\ changes # <<>>
     /\ messages' = UpdatedMessages(messages, changes)
     /\ deliveredInFlight' = deliveredInFlight \cup DeliveredWrites(changes)
     /\ pendingMessagesToMarkReadRef' = pendingMessagesToMarkReadRef \cup enq
     /\ markReadTimeoutRef' = (markReadTimeoutRef \/ enq # {})
     /\ connectionStateRef' = "connected"
     /\ reportedHidden' = IF documentHidden
                          THEN reportedHidden \cup {d.id : d \in PeerDocs(changes)}
                          ELSE reportedHidden
     /\ UNCHANGED isOnlineRef
     /\ OutsideFeed

\* ------------------------------------------------------------------------
\* The free change feed: snapshots of one or two arbitrary changes
\* ------------------------------------------------------------------------
FeedSender(id) == IF id % 2 = 0 THEN Peer ELSE CurrentUser

FeedDoc(id, ts) ==
  [id |-> id, timestamp |-> ts, sender |-> FeedSender(id),
   delivered |-> FALSE, read |-> FALSE]

FeedChanges ==
  {[type |-> t, doc |-> FeedDoc(i, ts)] :
     t \in {"added", "modified", "removed"}, i \in FeedIds, ts \in FeedTs}

\* Every change of the snapshot is an 'added' for an id the list already holds.
OnlyPresentAdds(changes, prev) ==
  \A i \in 1..Len(changes) :
    changes[i].type = "added" /\ changes[i].doc.id \in Ids(prev)

\* The 'removed' changes of a snapshot
RemovedChanges(changes) == SelectSeq(changes, LAMBDA c : c.type = "removed")

\* Observation: the delivered writes the handler issues for removed messages.
RemovedWrites(changes) == DeliveredWrites(RemovedChanges(changes))

FeedSnapshot1 ==
  \E c \in FeedChanges, eager \in BOOLEAN :
    /\ OnSnapshot(<<c>>, eager)
    /\ lastOp' = [Op("snapshot") EXCEPT !.replay = OnlyPresentAdds(<<c>>, messages),
                                       !.ids = RemovedWrites(<<c>>)]

FeedSnapshot2 ==
  \E c1 \in FeedChanges, c2 \in FeedChanges, eager \in BOOLEAN :
    /\ OnSnapshot(<<c1, c2>>, eager)
    /\ lastOp' = [Op("snapshot") EXCEPT !.replay = OnlyPresentAdds(<<c1, c2>>, messages),
                                       !.ids = RemovedWrites(<<c1, c2>>)]

\* ------------------------------------------------------------------------
\* Pagination Controller
\* ------------------------------------------------------------------------
\* A stored message: its id is its position in creation order.
StoreDoc(i) ==
  [id |-> i, timestamp |-> i, sender |-> FeedSender(i), delivered |-> FALSE, read |-> FALSE]

StaticStore(n) == [i \in 1..n |-> StoreDoc(i)]

\* lastVisible: null
NoCursor == 0

Reverse(seq) == [i \in 1..Len(seq) |-> seq[Len(seq) - i + 1]]

\* query(orderBy('timestamp', 'desc'), startAfter(cursor), limit(lim)): the
\* documents older than the cursor, newest first; without a cursor the newest.
QueryDesc(st, cursor, lim) ==
  LET hi == IF cursor = NoCursor THEN Len(st) ELSE cursor - 1
      n == IF hi < lim THEN hi ELSE lim
  IN [k \in 1..n |-> st[hi - k + 1]]

\* snapshot.docs[snapshot.docs.length - 1]
LastDoc(docs) == docs[Len(docs)].id

\* The ids the loads hand to the read tracker.
UnreadFromPeer(list) ==
  {list[i].id : i \in {j \in 1..Len(list) : list[j].sender # CurrentUser /\ ~list[j].read}}

InitialPagination ==
  [hasMore |-> TRUE, isLoadingMore |-> FALSE, lastVisible |-> NoCursor, totalLoaded |-> 0]

\* Observation: a setPagination turned hasMore from false to true.
Rearms(before, after) == ~before.hasMore /\ after.hasMore

\* hasMore after a page of n documents requested with limit lim
PageShort(n, lim) == FALSE

HasMoreAfter(n, lim) == n = lim

\* loadInitialMessages up to its await
LoadInitialCall ==
  /\ initLoad = "idle"
  /\ initLoad' = "reading"
  /\ loading' = TRUE
  /\ storeReads' = storeReads + 1
  /\ lastOp' = Op("loadInitialCall")
  /\ UNCHANGED <<messages, store, pagination, closurePagination, loadMoreReqs,
                 lastLoadCooldown, pendingMessagesToMarkReadRef, markReadTimeoutRef>>
  /\ OutsidePaging

\* loadInitialMessages from the answer of getDocs on
LoadInitialAnswer ==
  \E ok \in BOOLEAN :
    LET docs == QueryDesc(store, NoCursor, InitialLimit)
        initialMessages == Reverse(docs)
        unread == UnreadFromPeer(initialMessages)
    IN /\ initLoad = "reading"
       /\ loading' = FALSE
       /\ IF ~ok
          THEN /\ initLoad' = "failed"
               /\ UNCHANGED <<messages, pagination, pendingMessagesToMarkReadRef,
                              markReadTimeoutRef>>
          ELSE /\ initLoad' = "done"
               /\ IF docs = <<>>
                  THEN /\ messages' = <<>>
                       /\ pagination' = [pagination EXCEPT !.lastVisible = NoCursor,
                                                           !.hasMore = FALSE,
                                                           !.totalLoaded = 0]
                       /\ UNCHANGED <<pendingMessagesToMarkReadRef, markReadTimeoutRef>>
                  ELSE /\ messages' = initialMessages
                       /\ pagination' =
                            [pagination EXCEPT !.lastVisible = LastDoc(docs),
                                               !.hasMore = HasMoreAfter(Len(docs), InitialLimit),
                                               !.totalLoaded = Len(docs)]
                       /\ pendingMessagesToMarkReadRef' =
                            pendingMessagesToMarkReadRef \cup unread
                       /\ markReadTimeoutRef' = (markReadTimeoutRef \/ unread # {})
       /\ lastOp' = [Op("loadInitialAnswer") EXCEPT
                       !.ids = IF ok /\ docs # <<>> THEN unread ELSE {}]
       /\ UNCHANGED <<store, closurePagination, loadMoreReqs, lastLoadCooldown, storeReads>>
       /\ OutsidePaging

\* The guard of loadMoreMessages that needs no cursor
GuardWithoutHasMore(p) == p.isLoadingMore \/ p.lastVisible = NoCursor

\* The guard of loadMoreMessages, read from the pagination of its render
LoadMoreGuard(p) == ~p.hasMore \/ p.isLoadingMore \/ p.lastVisible = NoCursor

\* loadMoreMessages up to its await
LoadMoreBody ==
  LET p == closurePagination IN
  /\ IF LoadMoreGuard(p)
     THEN /\ lastOp' = [Op("loadMoreCall") EXCEPT !.skipped = TRUE]
          /\ UNCHANGED <<pagination, loadMoreReqs, storeReads>>
     ELSE /\ storeReads < MaxReads
          /\ Len(loadMoreReqs) < MaxLoadsInFlight
          /\ pagination' = [pagination EXCEPT !.isLoadingMore = TRUE]
          /\ loadMoreReqs' = Append(loadMoreReqs, p.lastVisible)
          /\ storeReads' = storeReads + 1
          /\ lastOp' = Op("loadMoreCall")
  /\ UNCHANGED <<messages, store, closurePagination, loading, initLoad,
                 pendingMessagesToMarkReadRef, markReadTimeoutRef>>
  /\ OutsidePaging

\* A call of the hook's loadMoreMessages by any holder of the function
LoadMoreMessages ==
  /\ LoadMoreBody
  /\ UNCHANGED lastLoadCooldown

\* MessageList.handleLoadMore: the only caller in the application
HandleLoadMore ==
  /\ ~lastLoadCooldown
  /\ ~(closurePagination.isLoadingMore \/ ~closurePagination.hasMore)
  /\ lastLoadCooldown' = TRUE
  /\ LoadMoreBody

\* loadMoreMessages from the answer of getDocs on
LoadMoreAnswer ==
  \E i \in 1..Len(loadMoreReqs), ok \in BOOLEAN :
    LET docs == QueryDesc(store, loadMoreReqs[i], LoadMoreLimit)
        newMessages == Reverse(docs)
        unread == UnreadFromPeer(newMessages)
    IN /\ loadMoreReqs' = RemoveAt(loadMoreReqs, i)
       /\ IF ~ok
          THEN /\ pagination' = [pagination EXCEPT !.isLoadingMore = FALSE]
               /\ UNCHANGED <<messages, pendingMessagesToMarkReadRef, markReadTimeoutRef>>
          ELSE IF docs = <<>>
          THEN /\ pagination' = [pagination EXCEPT !.hasMore = FALSE,
                                                   !.isLoadingMore = FALSE]
               /\ UNCHANGED <<messages, pendingMessagesToMarkReadRef, markReadTimeoutRef>>
          ELSE /\ messages' = newMessages \o messages
               /\ pagination' =
                    [pagination EXCEPT !.lastVisible = LastDoc(docs),
                                       !.hasMore = HasMoreAfter(Len(docs), LoadMoreLimit),
                                       !.totalLoaded = @ + Len(docs),
                                       !.isLoadingMore = FALSE]
               /\ pendingMessagesToMarkReadRef' = pendingMessagesToMarkReadRef \cup unread
               /\ markReadTimeoutRef' = (markReadTimeoutRef \/ unread # {})
       /\ lastOp' = [Op("loadMoreAnswer") EXCEPT
                       !.rearmed = Rearms(pagination, pagination'),
                       !.ids = IF ok /\ docs # <<>> THEN unread ELSE {}]
       /\ UNCHANGED <<store, closurePagination, loading, initLoad, lastLoadCooldown,
                      storeReads>>
       /\ OutsidePaging

\* A render: the callbacks are re-created over the current pagination.
Render ==
  /\ closurePagination # pagination
  /\ closurePagination' = pagination
  /\ lastOp' = Op("render")
  /\ UNCHANGED <<messages, store, pagination, loading, initLoad, loadMoreReqs,
                 lastLoadCooldown, storeReads, pendingMessagesToMarkReadRef,
                 markReadTimeoutRef>>
  /\ OutsidePaging

\* The 1 s cooldown of handleLoadMore runs out; the render that follows the
\* call's setPagination has been committed long before.
CooldownElapsed ==
  /\ lastLoadCooldown
  /\ closurePagination = pagination
  /\ lastLoadCooldown' = FALSE
  /\ lastOp' = Op("cooldownElapsed")
  /\ UNCHANGED <<messages, store, pagination, closurePagination, loading, initLoad,
                 loadMoreReqs, storeReads, pendingMessagesToMarkReadRef,
                 markReadTimeoutRef>>
  /\ OutsidePaging

\* ------------------------------------------------------------------------
\* Scroll-to-message: loadMessagesUntil and loadMessagesInBatches
\* ------------------------------------------------------------------------
\* phase: "idle", "direct1" (the lookup of the target document is awaited),
\* "direct2" (the context window), "probe" (the read that finds a cursor when
\* there is none), "batch" (a batch of the walk), "done".  walk counts the
\* calls of loadMessagesInBatches; cursor0 and loadedIds are pagination's
\* cursor and the list's ids in the render the call was made from.
ScrollIdle ==
  [phase |-> "idle", target |-> 0, walk |-> 0, attempts |-> 0, cursor |-> NoCursor,
   cursor0 |-> NoCursor, loadedIds |-> {}, alreadyLoaded |-> FALSE, directOk |-> FALSE,
   batchReads |-> 0, probeReads |-> 0, result |-> "none"]

\* The call returns r ("true" | "false") or raises ("raised").
Finish(sc, r) == [sc EXCEPT !.phase = "done", !.result = r]

\* A walk that gives up without reading
WalkLoopNever(sc) == Finish(sc, "false")

\* while (!foundMessage && attempts < maxAttempts && currentLastVisible), at
\* its head with foundMessage false: the next batch is requested, or the walk
\* returns foundMessage.
WalkLoop(sc) ==
  IF sc.attempts < MaxAttempts /\ sc.cursor # NoCursor
  THEN [sc EXCEPT !.phase = "batch", !.attempts = @ + 1, !.batchReads = @ + 1]
  ELSE Finish(sc, "false")

\* loadMessagesInBatches from its start to its first await
StartWalk(sc, w) ==
  IF sc.cursor0 = NoCursor
  THEN [sc EXCEPT !.walk = w, !.attempts = 0, !.cursor = NoCursor, !.phase = "probe",
                  !.probeReads = @ + 1]
  ELSE WalkLoop([sc EXCEPT !.walk = w, !.attempts = 0, !.cursor = sc.cursor0])

\* A read of the walk is rejected: the walk raises.  The first walk runs inside
\* the try of loadMessagesUntil, whose catch starts the second; the second
\* raises to the caller.
WalkRaised(sc) == IF sc.walk = 1 THEN StartWalk(sc, 2) ELSE Finish(sc, "raised")

IsReading(sc) == sc.phase \in {"direct1", "direct2", "probe", "batch"}

\* The targets asked for: the newest and the oldest message, the first message
\* older than the initial page, the deepest message a walk from the initial
\* cursor reaches and the one below it, and an id that is not in the store.
ScrollTargets(st) ==
  {t \in {1, Len(st) - InitialLimit - MaxAttempts * BatchLimit,
          Len(st) - InitialLimit - MaxAttempts * BatchLimit + 1,
          Len(st) - InitialLimit, Len(st), Len(st) + 1} : t >= 1}

\* loadMessagesUntil up to its first await
ScrollCall ==
  \E target \in ScrollTargets(store) :
    LET sc == [ScrollIdle EXCEPT !.target = target,
                                 !.cursor0 = closurePagination.lastVisible,
                                 !.loadedIds = Ids(messages)]
    IN /\ scroll.phase = "idle"
       /\ initLoad \in {"done", "failed"}
       /\ closurePagination = pagination
       /\ scroll' = IF target \in Ids(messages)
                    THEN Finish([sc EXCEPT !.alreadyLoaded = TRUE], "true")
                    ELSE [sc EXCEPT !.phase = "direct1"]
       /\ storeReads' = IF IsReading(scroll') THEN storeReads + 1 ELSE storeReads
       /\ lastOp' = Op("scrollCall")
       /\ UNCHANGED <<messages, pagination>>
       /\ OutsideScroll

\* The lookup of the target document answers.
DirectLookupAnswer ==
  \E ok \in BOOLEAN :
    /\ scroll.phase = "direct1"
    /\ scroll' = IF ok /\ scroll.target \in 1..Len(store)
                 THEN [scroll EXCEPT !.phase = "direct2"]
                 ELSE StartWalk(scroll, 1)
    /\ storeReads' = storeReads + 1
    /\ lastOp' = Op("directLookupAnswer")
    /\ UNCHANGED <<messages, pagination>>
    /\ OutsideScroll

\* The context query answers: up to 150 messages not newer than the target.
ContextAnswer ==
  \E ok \in BOOLEAN :
    LET contextMessages == Reverse(QueryDesc(store, scroll.target + 1, ContextLimit))
        foundInContext == scroll.target \in Ids(contextMessages)
        newMessages == SelectSeq(contextMessages, LAMBDA m : m.id \notin Ids(messages))
    IN /\ scroll.phase = "direct2"
       /\ IF ok /\ contextMessages # <<>> /\ foundInContext
          THEN /\ messages' = SortByTimestamp(newMessages \o messages)
               /\ pagination' =
                    [pagination EXCEPT
                       !.totalLoaded = @ + Cardinality(Ids(contextMessages) \ scroll.loadedIds),
                       !.hasMore = TRUE]
               /\ scroll' = Finish([scroll EXCEPT !.directOk = TRUE], "true")
          ELSE /\ scroll' = StartWalk(scroll, 1)
               /\ UNCHANGED <<messages, pagination>>
       /\ storeReads' = IF IsReading(scroll') THEN storeReads + 1 ELSE storeReads
       /\ lastOp' = [Op("contextAnswer") EXCEPT !.rearmed = Rearms(pagination, pagination')]
       /\ OutsideScroll

\* The read that looks for a cursor answers; its documents are not examined.
ProbeAnswer ==
  \E ok \in BOOLEAN :
    LET docs == QueryDesc(store, NoCursor, BatchLimit) IN
    /\ scroll.phase = "probe"
    /\ scroll' = IF ok
                 THEN WalkLoop([scroll EXCEPT
                                  !.cursor = IF docs = <<>> THEN NoCursor ELSE LastDoc(docs)])
                 ELSE WalkRaised(scroll)
    /\ storeReads' = IF IsReading(scroll') THEN storeReads + 1 ELSE storeReads
    /\ lastOp' = Op("probeAnswer")
    /\ UNCHANGED <<messages, pagination>>
    /\ OutsideScroll

\* A batch of the walk answers.
ScrollBatchAnswer ==
  \E ok \in BOOLEAN :
    LET docs == QueryDesc(store, scroll.cursor, BatchLimit)
        newMessages == Reverse(docs)
        foundMessage == scroll.target \in Ids(newMessages)
    IN /\ scroll.phase = "batch"
       /\ IF ~ok
          THEN /\ scroll' = WalkRaised(scroll)
               /\ UNCHANGED <<messages, pagination>>
          ELSE IF docs = <<>>
          THEN /\ scroll' = Finish(scroll, "false")
               /\ UNCHANGED <<messages, pagination>>
          ELSE /\ messages' = newMessages \o messages
               /\ pagination' =
                    [pagination EXCEPT !.lastVisible = LastDoc(docs),
                                       !.hasMore = HasMoreAfter(Len(docs), BatchLimit),
                                       !.totalLoaded = @ + Len(docs)]
               /\ scroll' = IF foundMessage
                            THEN Finish([scroll EXCEPT !.cursor = LastDoc(docs)], "true")
                            ELSE WalkLoop([scroll EXCEPT !.cursor = LastDoc(docs)])
       /\ storeReads' = IF IsReading(scroll') THEN storeReads + 1 ELSE storeReads
       /\ lastOp' = [Op("scrollBatchAnswer") EXCEPT !.rearmed = Rearms(pagination, pagination')]
       /\ OutsideScroll

\* sendMessage of either participant has been applied: the collection holds a
\* new, newest message.
MessageSent ==
  /\ Len(store) < MaxLiveStore
  /\ store' = Append(store, StoreDoc(Len(store) + 1))
  /\ lastOp' = Op("messageSent")
  /\ UNCHANGED <<messages, pagination, storeReads, scroll>>
  /\ OutsideStore

\* ------------------------------------------------------------------------
\* Delivery & Read Tracker against the store
\* ------------------------------------------------------------------------
\* The change feed reports one stored message, as it is in the store now.  The
\* listener is attached once loadInitialMessages has returned or raised.
StoreSnapshot ==
  \E i \in 1..Len(store), type \in {"added", "modified"}, eager \in BOOLEAN :
    /\ initLoad \in {"done", "failed"}
    /\ OnSnapshot(<<[type |-> type, doc |-> store[i]]>>, eager)
    /\ lastOp' = Op("storeSnapshot")

\* The first snapshot of the listener: its query has no limit, so every stored
\* message is reported as 'added'.
FirstSnapshot ==
  \E eager \in BOOLEAN :
    /\ initLoad \in {"done", "failed"}
    /\ lastOp.op # "firstSnapshot"
    /\ OnSnapshot([i \in 1..Len(store) |-> [type |-> "added", doc |-> store[i]]], eager)
    /\ lastOp' = Op("firstSnapshot")

\* The store answers a delivered = true write; a rejected write is only logged.
DeliveredAnswer ==
  \E id \in deliveredInFlight, ok \in BOOLEAN :
    /\ deliveredInFlight' = deliveredInFlight \ {id}
    /\ store' = IF ok /\ id \in 1..Len(store)
                THEN [store EXCEPT ![id].delivered = TRUE]
                ELSE store
    /\ lastOp' = Op("deliveredAnswer")
    /\ UNCHANGED <<connVars, pendingMessagesToMarkReadRef, markReadTimeoutRef,
                   batchesInFlight>>
    /\ OutsideReceipts

\* A flush guard that lets every flush through
FlushAlways(online, conn) == TRUE

\* batchMarkMessagesAsRead: "only mark as read if user is actually online and
\* connected"
FlushAllowed(online, conn) == online /\ conn = "connected"

\* The 300 ms timer fires: batchMarkMessagesAsRead up to its await.
FlushTimerFires ==
  LET issues == /\ pendingMessagesToMarkReadRef # {}
                /\ FlushAllowed(isOnlineRef, connectionStateRef)
  IN /\ markReadTimeoutRef
     /\ markReadTimeoutRef' = FALSE
     /\ IF issues
        THEN /\ Len(batchesInFlight) < MaxBatches
             /\ batchesInFlight' = Append(batchesInFlight, pendingMessagesToMarkReadRef)
        ELSE UNCHANGED batchesInFlight
     /\ lastOp' = [Op("flush") EXCEPT !.skipped = ~issues]
     /\ UNCHANGED <<connVars, pendingMessagesToMarkReadRef, deliveredInFlight, store>>
     /\ OutsideReceipts

MarkRead(st, ids) ==
  [i \in 1..Len(st) |-> IF st[i].id \in ids THEN [st[i] EXCEPT !.read = TRUE] ELSE st[i]]

\* The store answers the oldest batch commit: batchMarkMessagesAsRead from its
\* await on.
CommitAnswer ==
  \E ok \in BOOLEAN :
    /\ batchesInFlight # <<>>
    /\ batchesInFlight' = Tail(batchesInFlight)
    /\ IF ok
       THEN /\ store' = MarkRead(store, Head(batchesInFlight))
            /\ pendingMessagesToMarkReadRef' = {}
            /\ UNCHANGED connectionStateRef
       ELSE /\ connectionStateRef' = "disconnected"
            /\ UNCHANGED <<store, pendingMessagesToMarkReadRef>>
    /\ lastOp' = [Op("commitAnswer") EXCEPT
                    !.skipped = ~ok, !.ids = Head(batchesInFlight),
                    !.removed = pendingMessagesToMarkReadRef \ pendingMessagesToMarkReadRef']
    /\ UNCHANGED <<isOnlineRef, markReadTimeoutRef, deliveredInFlight>>
    /\ OutsideReceipts

\* ------------------------------------------------------------------------
\* Presence & Heartbeat Manager
\* ------------------------------------------------------------------------

\* A presence write.  kind names the continuation that runs when the store
\* answers: "status" (updateStatusImmediately), "heartbeat" (the online branch
\* of sendHeartbeat), "offline" (the hidden branch of sendHeartbeat).  by names
\* the handler that issued it.  typing is "yes", "no" or, for a setDoc with
\* merge that carries no isTyping, "keep".
TypingField(b) == IF b THEN "yes" ELSE "no"

StatusWrite(kind, by, online, typing) ==
  [kind |-> kind, by |-> by, online |-> online, typing |-> typing]

HeartbeatOnlineOnly(online, hidden) ==
  IF ~online
  THEN [online |-> online, writes |-> <<>>]
  ELSE [online |-> online,
        writes |-> <<StatusWrite("heartbeat", "heartbeat", TRUE, TypingField(isTypingRef))>>]

\* sendHeartbeat, up to its await: the local presence it leaves and the write
\* it issues.
SendHeartbeat(online, hidden) ==
  IF hidden \/ ~online
  THEN IF hidden /\ online
       THEN [online |-> FALSE,
             writes |-> <<StatusWrite("offline", "heartbeat", FALSE, "no")>>]
       ELSE [online |-> online, writes |-> <<>>]
  ELSE [online |-> online,
        writes |-> <<StatusWrite("heartbeat", "heartbeat", TRUE, TypingField(isTypingRef))>>]

\* The presence effect on mount.
InitializePresence ==
  /\ ~isInitializedRef
  /\ isInitializedRef' = TRUE
  /\ isOnlineRef' = TRUE
  /\ statusQueue' = Append(statusQueue, StatusWrite("status", "init", TRUE, "no"))
  /\ heartbeatTimers' = heartbeatTimers + 1
  /\ heartbeatRefLive' = TRUE
  /\ lastOp' = Op("init")
  /\ UNCHANGED <<documentHidden, isTypingRef, statusDoc, sinceHide, connectionStateRef>>
  /\ OutsidePresence

HideWriteNone == StatusWrite("status", "hide", TRUE, "no")

\* The write the hidden branch of handleVisibilityChange issues.
HideWrite == StatusWrite("status", "hide", FALSE, "no")

\* setInterval callback: sendHeartbeat.
HeartbeatTick ==
  LET hb == SendHeartbeat(isOnlineRef, documentHidden) IN
  /\ isInitializedRef
  /\ heartbeatTimers > 0
  /\ Len(statusQueue) + Len(hb.writes) <= MaxStatusInFlight
  /\ isOnlineRef' = hb.online
  /\ statusQueue' = statusQueue \o hb.writes
  /\ lastOp' = [Op("heartbeat") EXCEPT !.skipped = (hb.writes = <<>>)]
  /\ UNCHANGED <<documentHidden, isInitializedRef, isTypingRef, heartbeatTimers,
                 heartbeatRefLive, statusDoc, sinceHide, connectionStateRef>>
  /\ OutsidePresence

\* visibilitychange with document.hidden = true.
HideTab ==
  /\ isInitializedRef
  /\ ~documentHidden
  /\ Len(statusQueue) + 1 <= MaxStatusInFlight
  /\ documentHidden' = TRUE
  /\ isOnlineRef' = FALSE
  /\ statusQueue' = Append(statusQueue, HideWrite)
  /\ heartbeatTimers' = IF heartbeatRefLive THEN heartbeatTimers - 1 ELSE heartbeatTimers
  /\ heartbeatRefLive' = FALSE
  /\ sinceHide' = [hidden |-> TRUE, lost |-> FALSE,
                   hbInFlight |-> \E i \in 1..Len(statusQueue) :
                                    statusQueue[i].kind = "heartbeat"]
  /\ lastOp' = Op("hide")
  /\ UNCHANGED <<isInitializedRef, isTypingRef, statusDoc, connectionStateRef>>
  /\ OutsidePresence

\* visibilitychange with document.hidden = false.
ShowTab ==
  LET hb == SendHeartbeat(TRUE, FALSE) IN
  /\ isInitializedRef
  /\ documentHidden
  /\ heartbeatTimers < MaxTimers
  /\ Len(statusQueue) + 1 + Len(hb.writes) <= MaxStatusInFlight
  /\ documentHidden' = FALSE
  /\ isOnlineRef' = hb.online
  /\ statusQueue' = Append(statusQueue, StatusWrite("status", "show", TRUE, "no")) \o hb.writes
  /\ heartbeatTimers' = heartbeatTimers + 1
  /\ heartbeatRefLive' = TRUE
  /\ sinceHide' = NoHide
  /\ lastOp' = Op("show")
  /\ UNCHANGED <<isInitializedRef, isTypingRef, statusDoc, connectionStateRef>>
  /\ OutsidePresence

\* window focus; the event also reaches a window whose document is hidden.
WindowFocus ==
  LET hb == SendHeartbeat(TRUE, documentHidden) IN
  /\ isInitializedRef
  /\ (IF heartbeatRefLive THEN heartbeatTimers - 1 ELSE heartbeatTimers) < MaxTimers
  /\ Len(statusQueue) + 1 + Len(hb.writes) <= MaxStatusInFlight
  /\ isOnlineRef' = hb.online
  /\ statusQueue' = Append(statusQueue, StatusWrite("status", "focus", TRUE, "keep")) \o hb.writes
  /\ heartbeatTimers' = (IF heartbeatRefLive THEN heartbeatTimers - 1 ELSE heartbeatTimers) + 1
  /\ heartbeatRefLive' = TRUE
  /\ sinceHide' = NoHide
  /\ lastOp' = Op("focus")
  /\ UNCHANGED <<documentHidden, isInitializedRef, isTypingRef, statusDoc, connectionStateRef>>
  /\ OutsidePresence

\* The store applies a presence write (setDoc merge / updateDoc).
ApplyStatus(doc, w) ==
  [online |-> w.online,
   typing |-> IF w.typing = "keep" THEN doc.typing ELSE w.typing = "yes"]

\* What the presence handlers and the recovery leave alone
OutsideStatus ==
  UNCHANGED <<feedVars, receiptVars, schedVars, editVars, pageVars, scrollVars, batchVars,
              listenerVars, typingVars, peerVars, requestVars,
              obsVars>>

\* updateStatusImmediately catches the rejection of its setDoc: the await in
\* handleConnectionRecovery never throws.
StatusUpdateThrows(ok) == FALSE

\* handleConnectionRecovery from its await on: the try branch declares the
\* connection connected, the catch branch arms the 5 s retry.
RecoveryOutcome(ok) ==
  IF StatusUpdateThrows(ok)
  THEN [conn |-> "disconnected", timer |-> TRUE]
  ELSE [conn |-> "connected", timer |-> reconnectionTimeoutRef]

\* "Don't attempt recovery if already connected or reconnecting"
RecoveryGuard(conn) == conn \in {"connected", "reconnecting"}

\* handleConnectionRecovery up to its await, called with the connection
\* state conn.
HandleConnectionRecovery(conn) ==
  IF RecoveryGuard(conn)
  THEN [conn |-> conn, writes |-> <<>>]
  ELSE [conn |-> "reconnecting",
        writes |-> <<StatusWrite("recovery", "recovery", TRUE, TypingField(isTypingRef))>>]

RecoveriesInProgress == {i \in 1..Len(statusQueue) : statusQueue[i].kind = "recovery"}

\* The store answers the oldest outstanding presence write: the writes of one
\* client are applied in the order they were issued.
StatusAnswer ==
  \E ok \in BOOLEAN :
    LET w == Head(statusQueue) IN
    /\ statusQueue # <<>>
    /\ statusQueue' = Tail(statusQueue)
    /\ statusDoc' = IF ok THEN ApplyStatus(statusDoc, w) ELSE statusDoc
    /\ connectionStateRef' =
         CASE w.kind = "status" -> IF ok THEN connectionStateRef ELSE "disconnected"
           [] w.kind = "heartbeat" -> IF ok THEN "connected" ELSE "disconnected"
           [] w.kind = "recovery" -> RecoveryOutcome(ok).conn
           [] OTHER -> connectionStateRef
    /\ reconnectionTimeoutRef' = IF w.kind = "recovery" THEN RecoveryOutcome(ok).timer
                                 ELSE reconnectionTimeoutRef
    /\ isOnlineRef' = IF w.kind = "heartbeat" /\ ~ok THEN FALSE ELSE isOnlineRef
    /\ sinceHide' = IF /\ w.by = "hide"
                       /\ ~ok
                       /\ sinceHide.hidden
                       /\ \A i \in 2..Len(statusQueue) : statusQueue[i].by # "hide"
                    THEN [sinceHide EXCEPT !.lost = TRUE] ELSE sinceHide
    /\ lastOp' = [Op(CASE w.kind = "heartbeat" -> "heartbeatAnswer"
                        [] w.kind = "recovery" -> "recoveryAnswer"
                        [] OTHER -> "statusAnswer")
                    EXCEPT !.skipped = ~ok]
    /\ UNCHANGED <<documentHidden, isInitializedRef, isTypingRef, heartbeatTimers,
                   heartbeatRefLive>>
    /\ OutsideStatus

\* The browser's online event.
HandleOnline ==
  LET rec == HandleConnectionRecovery(connectionStateRef) IN
  /\ isInitializedRef
  /\ Len(statusQueue) + 1 + Len(rec.writes) <= MaxStatusInFlight
  /\ isOnlineRef' = TRUE
  /\ statusQueue' = Append(statusQueue, StatusWrite("status", "online", TRUE, "keep"))
                       \o rec.writes
  /\ connectionStateRef' = rec.conn
  /\ lastOp' = [Op("online") EXCEPT !.skipped = (rec.writes = <<>>)]
  /\ UNCHANGED <<documentHidden, isInitializedRef, isTypingRef, heartbeatTimers,
                 heartbeatRefLive, statusDoc, sinceHide, reconnectionTimeoutRef>>
  /\ OutsideStatus

KeepConnection(conn) == conn

\* handleOffline: connectionStateRef.current = 'disconnected'
OfflineConnection(conn) == "disconnected"

\* The browser's offline event.
HandleOffline ==
  /\ isInitializedRef
  /\ Len(statusQueue) + 1 <= MaxStatusInFlight
  /\ isOnlineRef' = FALSE
  /\ statusQueue' = Append(statusQueue, StatusWrite("status", "offline", FALSE, "no"))
  /\ connectionStateRef' = OfflineConnection(connectionStateRef)
  /\ lastOp' = Op("offline")
  /\ UNCHANGED <<documentHidden, isInitializedRef, isTypingRef, heartbeatTimers,
                 heartbeatRefLive, statusDoc, sinceHide, reconnectionTimeoutRef>>
  /\ OutsideStatus

\* The status listener's error callback.
StatusListenerError ==
  LET rec == HandleConnectionRecovery("disconnected") IN
  /\ isInitializedRef
  /\ Len(statusQueue) + Len(rec.writes) <= MaxStatusInFlight
  /\ statusQueue' = statusQueue \o rec.writes
  /\ connectionStateRef' = rec.conn
  /\ lastOp' = Op("statusListenerError")
  /\ UNCHANGED <<isOnlineRef, documentHidden, isInitializedRef, isTypingRef, heartbeatTimers,
                 heartbeatRefLive, statusDoc, sinceHide, reconnectionTimeoutRef>>
  /\ OutsideStatus

\* ------------------------------------------------------------------------
\* Typing indicator
\* ------------------------------------------------------------------------
OutsideTyping ==
  UNCHANGED <<feedVars, connVars, receiptVars, schedVars, editVars, pageVars, scrollVars,
              batchVars, listenerVars, peerVars, documentHidden, isInitializedRef,
              heartbeatTimers, heartbeatRefLive, statusQueue, sinceHide,
              requestVars,
              recoveryVars,
              obsVars>>

\* if (!isTypingRef.current) / if (isTypingRef.current): the call differs from
\* the local typing flag.
TypingEdge(isTyping, ref) == isTyping # ref

\* clearTimeout(typingTimeoutRef.current)
TimersAfterClear == IF typingTimeoutLive THEN typingTimers - 1 ELSE typingTimers

\* setTypingStatus(isTyping) up to its await, or to its end when it skips the
\* write.
SetTypingStatus ==
  \E isTyping \in BOOLEAN :
    LET writes == TypingEdge(isTyping, isTypingRef)
        arms == isTyping /\ ~writes
    IN /\ writes => Len(typingTasks) < MaxTypingInFlight
       /\ (writes /\ isTyping) => trueWrites < MaxTrueWrites
       /\ arms => TimersAfterClear < MaxTypingTimers
       /\ typingTasks' = IF writes THEN Append(typingTasks, isTyping) ELSE typingTasks
       /\ typingTimers' = IF arms THEN TimersAfterClear + 1 ELSE TimersAfterClear
       /\ typingTimeoutLive' = arms
       /\ trueWrites' = IF ~isTyping THEN 0
                        ELSE IF writes THEN trueWrites + 1 ELSE trueWrites
       /\ lastOp' = [Op("setTypingStatus") EXCEPT !.skipped = ~writes]
       /\ UNCHANGED <<isTypingRef, statusDoc>>
       /\ OutsideTyping

\* The store answers the oldest typing write: setTypingStatus, or the timer
\* callback, from its await on.
TypingWriteAnswer ==
  \E ok \in BOOLEAN :
    LET isTyping == Head(typingTasks)
        arms == ok /\ isTyping
    IN /\ typingTasks # <<>>
       /\ arms => typingTimers < MaxTypingTimers
       /\ typingTasks' = Tail(typingTasks)
       /\ statusDoc' = IF ok THEN [statusDoc EXCEPT !.typing = isTyping] ELSE statusDoc
       /\ isTypingRef' = IF ok THEN isTyping ELSE isTypingRef
       /\ typingTimers' = IF arms THEN typingTimers + 1 ELSE typingTimers
       /\ typingTimeoutLive' = (typingTimeoutLive \/ arms)
       /\ lastOp' = [Op("typingWriteAnswer") EXCEPT !.skipped = ~ok]
       /\ UNCHANGED trueWrites
       /\ OutsideTyping

\* A 2 s auto-clear timer fires: it writes typing = false.
TypingTimerFires ==
  \E refTimer \in BOOLEAN :
    /\ typingTimers > 0
    /\ refTimer => typingTimeoutLive
    /\ ~refTimer => typingTimers > (IF typingTimeoutLive THEN 1 ELSE 0)
    /\ Len(typingTasks) < MaxTypingInFlight
    /\ typingTimers' = typingTimers - 1
    /\ typingTimeoutLive' = (typingTimeoutLive /\ ~refTimer)
    /\ typingTasks' = Append(typingTasks, FALSE)
    /\ trueWrites' = 0
    /\ lastOp' = Op("typingTimer")
    /\ UNCHANGED <<isTypingRef, statusDoc>>
    /\ OutsideTyping

\* ------------------------------------------------------------------------
\* Peer presence as the status listener surfaces it
\* ------------------------------------------------------------------------
OutsidePeer ==
  UNCHANGED <<feedVars, connVars, receiptVars, presenceVars, schedVars, editVars, pageVars,
              scrollVars, batchVars, listenerVars, typingVars,
              requestVars,
              recoveryVars,
              obsVars>>

\* isRecentlyActive: (new Date().getTime() - lastSeen.getTime()) < 30000
IsRecentlyActive(t, lastSeen) == t - lastSeen < FreshnessWindow

\* The entry the status snapshot handler computes for a record
SurfacedStatus(record, t) ==
  [isOnline |-> record.online /\ IsRecentlyActive(t, record.lastSeen),
   lastSeen |-> record.lastSeen]

\* The peer's client writes its record (status update, heartbeat, hide,
\* unload): lastSeen is the server's time.
PeerStatusWrite ==
  \E online \in BOOLEAN :
    /\ peerStatusDoc' = [online |-> online, lastSeen |-> presenceClock]
    /\ lastOp' = Op("peerStatusWrite")
    /\ UNCHANGED <<presenceClock, peerSurfaced>>
    /\ OutsidePeer

\* The status listener reports the collection: the handler recomputes the
\* peer's entry and calls setUserStatuses.
StatusSnapshot ==
  /\ peerSurfaced' = SurfacedStatus(peerStatusDoc, presenceClock)
  /\ lastOp' = Op("statusSnapshot")
  /\ UNCHANGED <<presenceClock, peerStatusDoc>>
  /\ OutsidePeer

\* 10 s pass.
PresenceClockTick ==
  /\ presenceClock < MaxPresenceClock
  /\ presenceClock' = presenceClock + 1
  /\ lastOp' = Op("presenceClock")
  /\ UNCHANGED <<peerStatusDoc, peerSurfaced>>
  /\ OutsidePeer

\* ------------------------------------------------------------------------
\* The message listener's life cycle
\* ------------------------------------------------------------------------
\* A subscription is "active" from onSnapshot until its unsubscribe handle is
\* invoked ("unsubscribed") or the store ends it through the error callback
\* ("errored").  The load the initializeChat effect awaits is followed here
\* only as far as the run's position: "loading", "timer", "done".
OutsideListener ==
  UNCHANGED <<feedVars, schedVars, editVars, pageVars, scrollVars, batchVars,
              pendingMessagesToMarkReadRef, deliveredInFlight, documentHidden,
              isInitializedRef, isTypingRef, statusDoc, sinceHide, typingVars, peerVars,
              requestVars,
              recoveryVars,
              obsVars>>

KeepHandle(subs, ref) == subs

\* messageListenerRef.current(): the handle held by the ref is invoked.
Unsubscribe(subs, ref) == IF ref = 0 THEN subs ELSE [subs EXCEPT ![ref] = "unsubscribed"]

\* setupMessageListener: the subscriptions and the ref it leaves.
SetupMessageListener(subs, ref, settingUp) ==
  IF settingUp
  THEN [subs |-> subs, ref |-> ref]
  ELSE [subs |-> Append(Unsubscribe(subs, ref), "active"), ref |-> Len(subs) + 1]

ActiveSubscriptions == {id \in 1..Len(subscriptions) : subscriptions[id] = "active"}

IsMounted(run) == run = liveRun

\* A timer callback that calls setupMessageListener when the ref is null.
SetupIfMissing(name, wanted) ==
  LET calls == wanted /\ messageListenerRef = 0
      after == SetupMessageListener(subscriptions, messageListenerRef, isSettingUpListenerRef)
  IN /\ calls => Len(subscriptions) < MaxSubscriptions
     /\ subscriptions' = IF calls THEN after.subs ELSE subscriptions
     /\ messageListenerRef' = IF calls THEN after.ref ELSE messageListenerRef
     /\ isSettingUpListenerRef' = IF calls THEN FALSE ELSE isSettingUpListenerRef
     /\ lastOp' = [Op(name) EXCEPT !.skipped = ~calls]

\* initializeChat after its await of loadInitialMessages: the try branch arms
\* the 200 ms timer, the catch branch the 500 ms timer.
InitLoadDone ==
  \E run \in 1..Len(initRuns), ok \in BOOLEAN :
    LET arms == /\ IsMounted(run)
                /\ messageListenerRef = 0
                /\ (ok => ~isSettingUpListenerRef)
    IN /\ initRuns[run] = "loading"
       /\ initRuns' = [initRuns EXCEPT ![run] = IF arms THEN "timer" ELSE "done"]
       /\ lastOp' = [Op("initLoadDone") EXCEPT !.skipped = ~arms]
       /\ UNCHANGED <<messageListenerRef, isSettingUpListenerRef, subscriptions, retryTimers,
                      liveRun, presenceCleanupDone, connVars, markReadTimeoutRef,
                      heartbeatTimers, heartbeatRefLive, statusQueue>>
       /\ OutsideListener

\* The delayed setup of initializeChat.
InitTimerFires ==
  \E run \in 1..Len(initRuns) :
    /\ initRuns[run] = "timer"
    /\ SetupIfMissing("initTimer", IsMounted(run))
    /\ initRuns' = [initRuns EXCEPT ![run] = "done"]
    /\ UNCHANGED <<retryTimers, liveRun, presenceCleanupDone, connVars, markReadTimeoutRef,
                   heartbeatTimers, heartbeatRefLive, statusQueue>>
    /\ OutsideListener

\* The store ends a subscription: the listener's error callback.
ListenerError ==
  \E id \in ActiveSubscriptions :
    /\ subscriptions' = [subscriptions EXCEPT ![id] = "errored"]
    /\ connectionStateRef' = "disconnected"
    /\ isSettingUpListenerRef' = FALSE
    /\ retryTimers' = retryTimers + 1
    /\ lastOp' = Op("listenerError")
    /\ UNCHANGED <<messageListenerRef, initRuns, liveRun, presenceCleanupDone, isOnlineRef,
                   markReadTimeoutRef, heartbeatTimers, heartbeatRefLive, statusQueue>>
    /\ OutsideListener

\* The 2 s timer of the error callback.
RetryTimerFires ==
  /\ retryTimers > 0
  /\ retryTimers' = retryTimers - 1
  /\ SetupIfMissing("retryTimer", TRUE)
  /\ UNCHANGED <<initRuns, liveRun, presenceCleanupDone, connVars, markReadTimeoutRef,
                 heartbeatTimers, heartbeatRefLive, statusQueue>>
  /\ OutsideListener

\* The cleanup the presence effect returned on its first run.  The effect's
\* body returns at once on a later run (isInitializedRef), so there is no
\* second cleanup.
CleanupArmed == isInitializedRef /\ ~presenceCleanupDone

PresenceCleanup(runs) ==
  /\ runs => Len(statusQueue) < MaxStatusInFlight
  /\ subscriptions' = IF runs THEN Unsubscribe(subscriptions, messageListenerRef)
                      ELSE subscriptions
  /\ messageListenerRef' = IF runs THEN 0 ELSE messageListenerRef
  /\ isSettingUpListenerRef' = IF runs THEN FALSE ELSE isSettingUpListenerRef
  /\ heartbeatTimers' = IF runs /\ heartbeatRefLive THEN heartbeatTimers - 1
                        ELSE heartbeatTimers
  /\ heartbeatRefLive' = IF runs THEN FALSE ELSE heartbeatRefLive
  /\ markReadTimeoutRef' = IF runs THEN FALSE ELSE markReadTimeoutRef
  /\ isOnlineRef' = IF runs THEN FALSE ELSE isOnlineRef
  /\ statusQueue' = IF runs
                    THEN Append(statusQueue, StatusWrite("offline", "cleanup", FALSE, "no"))
                    ELSE statusQueue
  /\ presenceCleanupDone' = (presenceCleanupDone \/ runs)
  /\ UNCHANGED <<retryTimers, connectionStateRef>>

\* A status snapshot has changed userStatuses: setupStatusListener is a new
\* function and the presence effect, which depends on it, is run again.
StatusDepsChange ==
  /\ liveRun # 0
  /\ CleanupArmed
  /\ PresenceCleanup(TRUE)
  /\ lastOp' = Op("statusDepsChange")
  /\ UNCHANGED <<initRuns, liveRun>>
  /\ OutsideListener

\* currentUser changes: both effects are run again.
UserChange ==
  /\ liveRun # 0
  /\ Len(initRuns) < MaxEffectRuns
  /\ PresenceCleanup(CleanupArmed)
  /\ initRuns' = Append(initRuns, "loading")
  /\ liveRun' = Len(initRuns) + 1
  /\ lastOp' = Op("userChange")
  /\ OutsideListener

\* The component unmounts.
Unmount ==
  /\ liveRun # 0
  /\ PresenceCleanup(CleanupArmed)
  /\ liveRun' = 0
  /\ lastOp' = Op("unmount")
  /\ UNCHANGED initRuns
  /\ OutsideListener

\* ------------------------------------------------------------------------
\* Recurring Scheduler (src/unnamed/part_010)
\* ------------------------------------------------------------------------
\* Time is counted in days from Monday 2024-01-01 (day 0); every target time
\* is taken at the same time of day, so a target is due when its day is not
\* after the clock's.
Recurrences == {"none", "daily", "weekly", "monthly", "custom"}

WeekDays == <<"Monday", "Tuesday", "Wednesday", "Thursday", "Friday", "Saturday", "Sunday">>

\* toLocaleDateString('en-US', { weekday: 'long' })
DayName(d) == WeekDays[(d % 7) + 1]

\* The length of the month day d lies in: setMonth(getMonth() + 1) keeps the
\* day of the month and so moves the date by that length.
MonthLengthAt(d) == IF d < 31 THEN 31 ELSE IF d < 60 THEN 29 ELSE 31

CalculateNextScheduledDate(currentDate, recurrence) ==
  CASE recurrence = "daily" -> currentDate + 1
    [] recurrence = "weekly" -> currentDate + 7
    [] recurrence = "monthly" -> currentDate + MonthLengthAt(currentDate)
    [] OTHER -> currentDate

\* while (attempts < 7): the first day from date on whose weekday is selected.
RECURSIVE FindSelectedDay(_, _, _)
FindSelectedDay(date, selectedDays, attempts) ==
  IF attempts >= 7 \/ DayName(date) \in selectedDays
  THEN date
  ELSE FindSelectedDay(date + 1, selectedDays, attempts + 1)

\* The fields an updateDoc of the schedule carries
DateUpdate(date) == [setDate |-> TRUE, date |-> date, setSent |-> FALSE, sent |-> FALSE]
RecurUpdate(date) == [setDate |-> TRUE, date |-> date, setSent |-> TRUE, sent |-> FALSE]
SentUpdate == [setDate |-> FALSE, date |-> 0, setSent |-> TRUE, sent |-> TRUE]

\* The update a run issues after it has sent the message.
PostSendUpdate(d) ==
  IF d.recurrence # "none"
  THEN RecurUpdate(IF d.recurrence = "custom" /\ d.selectedDays # {}
                   THEN FindSelectedDay(CalculateNextScheduledDate(d.scheduledDate,
                                                                   d.recurrence),
                                        d.selectedDays, 0)
                   ELSE CalculateNextScheduledDate(d.scheduledDate, d.recurrence))
  ELSE SentUpdate

\* The update of the skip branch
SkipUpdate(d) == DateUpdate(CalculateNextScheduledDate(d.scheduledDate, d.recurrence))

\* The skip branch: a due custom schedule whose target's weekday is not selected.
IsSkippedDay(d) ==
  /\ d.recurrence = "custom"
  /\ d.selectedDays # {}
  /\ DayName(d.scheduledDate) \notin d.selectedDays

IsDue(d, t) == d.enabled /\ ~d.sent /\ ~(d.scheduledDate > t)

RemoveTask(tasks, i) == SubSeq(tasks, 1, i - 1) \o SubSeq(tasks, i + 1, Len(tasks))

\* checkAndSendScheduledMessages of one client up to its await: the clock is
\* read and the schedules are requested.
SchedulerTick ==
  \E client \in {CurrentUser, Peer} :
    /\ Len(schedTasks) < MaxTasks
    /\ schedSends < MaxSends
    /\ schedSkips < MaxSkips
    /\ schedTasks' = Append(schedTasks,
                            [client |-> client, phase |-> "reading", now |-> now,
                             update |-> SentUpdate, sent |-> 0])
    /\ lastOp' = Op("tick")
    /\ UNCHANGED <<scheduledDoc, schedOrig, schedSends, schedSkips, now>>
    /\ OutsideScheduler

\* The schedules arrive: the run filters the document and goes on to its next
\* await, the skip update or the send.
ScheduleReadAnswer ==
  \E i \in 1..Len(schedTasks), ok \in BOOLEAN :
    LET t == schedTasks[i]
        d == scheduledDoc
    IN /\ t.phase = "reading"
       /\ schedTasks' =
            IF ~ok \/ ~d.exists \/ ~IsDue(d, t.now) THEN RemoveTask(schedTasks, i)
            ELSE IF IsSkippedDay(d)
                 THEN [schedTasks EXCEPT ![i].phase = "skipUpdate",
                                         ![i].update = SkipUpdate(d)]
                 ELSE [schedTasks EXCEPT ![i].phase = "sending",
                                         ![i].update = PostSendUpdate(d)]
       /\ lastOp' = Op("scheduleReadAnswer")
       /\ UNCHANGED <<scheduledDoc, schedOrig, schedSends, schedSkips, now>>
       /\ OutsideScheduler

ApplyScheduleUpdate(d, u) ==
  [d EXCEPT !.scheduledDate = IF u.setDate THEN u.date ELSE @,
            !.sent = IF u.setSent THEN u.sent ELSE @]

\* The store answers the updateDoc of the skip branch.
SkipUpdateAnswer ==
  \E i \in 1..Len(schedTasks), ok \in BOOLEAN :
    /\ schedTasks[i].phase = "skipUpdate"
    /\ schedTasks' = RemoveTask(schedTasks, i)
    /\ scheduledDoc' = IF ok THEN ApplyScheduleUpdate(scheduledDoc, schedTasks[i].update)
                       ELSE scheduledDoc
    /\ schedSkips' = IF ok THEN schedSkips + 1 ELSE schedSkips
    /\ lastOp' = [Op("skipUpdateAnswer") EXCEPT !.skipped = ~ok]
    /\ UNCHANGED <<schedOrig, schedSends, now>>
    /\ OutsideScheduler

\* A run that stays at its send
SendAgain(t) == [t EXCEPT !.sent = @ + 1]

\* After its addDoc a run goes on to the update of the schedule: there is no
\* loop over the intervals that were missed.
AfterSend(t) == [t EXCEPT !.phase = "update", !.sent = @ + 1]

\* The store answers the addDoc that sends the message.
SendAnswer ==
  \E i \in 1..Len(schedTasks), ok \in BOOLEAN :
    /\ schedTasks[i].phase = "sending"
    /\ schedTasks' = IF ok THEN [schedTasks EXCEPT ![i] = AfterSend(@)]
                     ELSE RemoveTask(schedTasks, i)
    /\ schedSends' = IF ok THEN schedSends + 1 ELSE schedSends
    /\ lastOp' = [Op("sendAnswer") EXCEPT !.skipped = ~ok]
    /\ UNCHANGED <<scheduledDoc, schedOrig, schedSkips, now>>
    /\ OutsideScheduler

\* The store answers the updateDoc that follows a send.
UpdateAnswer ==
  \E i \in 1..Len(schedTasks), ok \in BOOLEAN :
    /\ schedTasks[i].phase = "update"
    /\ schedTasks' = RemoveTask(schedTasks, i)
    /\ scheduledDoc' = IF ok THEN ApplyScheduleUpdate(scheduledDoc, schedTasks[i].update)
                       ELSE scheduledDoc
    /\ lastOp' = [Op("updateAnswer") EXCEPT !.skipped = ~ok]
    /\ UNCHANGED <<schedOrig, schedSends, schedSkips, now>>
    /\ OutsideScheduler

\* toggleScheduledMessage(id, enabled): the store answers its updateDoc.
ToggleScheduledMessage ==
  \E enabled \in BOOLEAN, ok \in BOOLEAN :
    /\ scheduledDoc.exists
    /\ scheduledDoc' = IF ok THEN [scheduledDoc EXCEPT !.enabled = enabled] ELSE scheduledDoc
    /\ lastOp' = [Op("toggle") EXCEPT !.skipped = ~ok]
    /\ UNCHANGED <<schedOrig, schedSends, schedSkips, schedTasks, now>>
    /\ OutsideScheduler

ClockAdvance ==
  /\ now < MaxDay
  /\ now' = now + 1
  /\ lastOp' = Op("clock")
  /\ UNCHANGED <<scheduledDoc, schedOrig, schedSends, schedSkips, schedTasks>>
  /\ OutsideScheduler

\* scheduleMessage: the document a schedule request creates.
DaySets == {{}, {"Monday", "Wednesday"}, {"Tuesday"}, {"Wednesday", "Friday"}}

NewSchedules ==
  {[exists |-> TRUE, sender |-> CurrentUser, scheduledDate |-> day, recurrence |-> r,
    selectedDays |-> days, sent |-> FALSE, enabled |-> TRUE] :
     day \in 0..MaxSchedDay, r \in Recurrences, days \in DaySets}

InitSchedule ==
  /\ scheduledDoc \in {d \in NewSchedules : d.recurrence # "custom" => d.selectedDays = {}}
  /\ schedOrig = scheduledDoc
  /\ schedSends = 0
  /\ schedSkips = 0
  /\ schedTasks = <<>>
  /\ now \in 0..MaxDay

\* ------------------------------------------------------------------------
\* Schedule requests (ScheduleMessageModal.handleScheduleMessage, scheduleMessage)
\* ------------------------------------------------------------------------
\* A request names a day and a time slot of that day on the local wall clock.
\* Instants are counted in slots of local time from the start of day 0.
OutsideRequest ==
  UNCHANGED <<feedVars, connVars, receiptVars, presenceVars, schedVars, editVars, pageVars,
              scrollVars, batchVars, listenerVars, typingVars, peerVars,
              recoveryVars,
              obsVars>>

RequestTexts == {"", "hi"}
RequestDays == {{}, {"Monday"}}
RequestRecurrences == {"none", "weekly", "custom"}

Requests ==
  [text : RequestTexts, day : 0..MaxRequestDay, slot : 0..(SlotsPerDay - 1),
   hasDate : BOOLEAN, recurrence : RequestRecurrences, selectedDays : RequestDays]

\* new Date(`${scheduleDate}T${scheduleTime}`): a date-time string without a
\* zone is local time.
LocalDateTime(day, slot) == day * SlotsPerDay + slot

\* new Date(scheduleDate): a date-only string is midnight UTC; the local day
\* that instant lies in.
LocalDayOfUtcMidnight(day, tz) == IF tz < 0 THEN day - 1 ELSE day

\* scheduleMessage: new Date(date) with setHours(hours, minutes, 0, 0)
ScheduledDateTime(day, slot, tz) == LocalDayOfUtcMidnight(day, tz) * SlotsPerDay + slot

\* The three tests of handleScheduleMessage
RequestValid(r, t) ==
  /\ r.text # "" /\ r.hasDate
  /\ ~(LocalDateTime(r.day, r.slot) <= t)
  /\ ~(r.recurrence = "custom" /\ r.selectedDays = {})

\* The document scheduleMessage builds; request and requestedAt are
\* observations of the request it came from.
ScheduledMessageData(r, t, tz) ==
  [scheduledDate |-> ScheduledDateTime(r.day, r.slot, tz),
   recurrence |-> r.recurrence,
   selectedDays |-> IF r.recurrence = "custom" /\ r.selectedDays # {}
                    THEN r.selectedDays ELSE {},
   sent |-> FALSE, enabled |-> TRUE,
   request |-> r, requestedAt |-> t]

\* handleScheduleMessage up to the await of scheduleMessage's addDoc, or to
\* its alert.  Requests are followed until one of them has been stored.
HandleScheduleMessage ==
  \E r \in Requests :
    LET valid == RequestValid(r, requestClock) IN
    /\ valid => (scheduleAdds = <<>> /\ scheduledCollection = {})
    /\ scheduleAdds' = IF valid
                       THEN Append(scheduleAdds,
                                   ScheduledMessageData(r, requestClock, tzOffset))
                       ELSE scheduleAdds
    /\ lastOp' = [Op("scheduleRequest") EXCEPT !.skipped = ~valid]
    /\ UNCHANGED <<requestClock, tzOffset, scheduledCollection>>
    /\ OutsideRequest

\* The store answers the addDoc.
ScheduleAddAnswer ==
  \E ok \in BOOLEAN :
    /\ scheduleAdds # <<>>
    /\ scheduleAdds' = Tail(scheduleAdds)
    /\ scheduledCollection' = IF ok THEN scheduledCollection \cup {Head(scheduleAdds)}
                              ELSE scheduledCollection
    /\ lastOp' = [Op("scheduleAddAnswer") EXCEPT !.skipped = ~ok]
    /\ UNCHANGED <<requestClock, tzOffset>>
    /\ OutsideRequest

RequestClockTick ==
  /\ requestClock < MaxRequestClock
  /\ requestClock' = requestClock + 1
  /\ lastOp' = Op("requestClock")
  /\ UNCHANGED <<tzOffset, scheduledCollection, scheduleAdds>>
  /\ OutsideRequest

\* ------------------------------------------------------------------------
\* Message editing (src/unnamed/part_010)
\* ------------------------------------------------------------------------
EditTexts == {"hello", "hullo", "hi"}

\* arrayUnion: the element is appended unless the array already holds it.
ArrayUnion(array, element) ==
  IF \E i \in 1..Len(array) : array[i] = element THEN array ELSE Append(array, element)

\* editMessage up to its first await: the getDoc of the message is issued.
EditMessageCall ==
  \E newText \in EditTexts :
    /\ editClock + Len(editTasks) < MaxEdits
    /\ editTasks' = Append(editTasks, [phase |-> "reading", newText |-> newText,
                                       entry |-> [text |-> "", editedAt |-> 0]])
    /\ lastOp' = Op("editCall")
    /\ UNCHANGED <<editDoc, editClock, liveBefore>>
    /\ OutsideEdit

\* The getDoc answers: the text read is compared with the new text and the
\* updateDoc is issued with the text read as the history entry; a failed read
\* or an equal text ends the edit.
EditReadAnswer ==
  \E i \in 1..Len(editTasks), ok \in BOOLEAN :
    LET t == editTasks[i]
        currentText == editDoc.text
    IN /\ t.phase = "reading"
       /\ IF ok /\ currentText # t.newText
          THEN /\ editTasks' = Append(RemoveTask(editTasks, i),
                                      [t EXCEPT !.phase = "writing",
                                                !.entry = [text |-> currentText,
                                                           editedAt |-> editClock + 1]])
               /\ editClock' = editClock + 1
          ELSE /\ editTasks' = RemoveTask(editTasks, i)
               /\ UNCHANGED editClock
       /\ lastOp' = Op("editReadAnswer")
       /\ UNCHANGED <<editDoc, liveBefore>>
       /\ OutsideEdit

\* The store answers the oldest updateDoc in flight.
EditWriteAnswer ==
  \E i \in 1..Len(editTasks), ok \in BOOLEAN :
    LET t == editTasks[i] IN
    /\ t.phase = "writing"
    /\ \A j \in 1..(i - 1) : editTasks[j].phase # "writing"
    /\ editTasks' = RemoveTask(editTasks, i)
    /\ editDoc' = IF ok
                  THEN [text |-> t.newText,
                        editHistory |-> ArrayUnion(editDoc.editHistory, t.entry)]
                  ELSE editDoc
    /\ liveBefore' = IF ok THEN Append(liveBefore, editDoc.text) ELSE liveBefore
    /\ lastOp' = Op("editWriteAnswer")
    /\ UNCHANGED editClock
    /\ OutsideEdit

\* ------------------------------------------------------------------------
\* Initial state: the hook's useState and useRef initial values
\* ------------------------------------------------------------------------

\* The browser's zone: local time minus UTC, in time slots
ZoneOffsets == {-1, 0, 1}

InitHookIn(zones) ==
  /\ messages = <<>>
  /\ isOnlineRef = FALSE
  /\ connectionStateRef = "disconnected"
  /\ pendingMessagesToMarkReadRef = {}
  /\ markReadTimeoutRef = FALSE
  /\ deliveredInFlight = {}
  /\ documentHidden = FALSE
  /\ isInitializedRef = FALSE
  /\ isTypingRef = FALSE
  /\ heartbeatTimers = 0
  /\ heartbeatRefLive = FALSE
  /\ statusQueue = <<>>
  /\ statusDoc = [online |-> FALSE, typing |-> FALSE]
  /\ sinceHide = NoHide
  /\ messageListenerRef = 0
  /\ isSettingUpListenerRef = FALSE
  /\ subscriptions = <<>>
  /\ retryTimers = 0
  /\ initRuns = <<"loading">>
  /\ liveRun = 1
  /\ presenceCleanupDone = FALSE
  /\ typingTasks = <<>>
  /\ typingTimers = 0
  /\ typingTimeoutLive = FALSE
  /\ trueWrites = 0
  /\ presenceClock = 0
  /\ peerStatusDoc = [online |-> FALSE, lastSeen |-> 0]
  /\ peerSurfaced = [isOnline |-> FALSE, lastSeen |-> 0]
  /\ reconnectionTimeoutRef = FALSE
  /\ reportedHidden = {}
  /\ requestClock = 0
  /\ tzOffset \in zones
  /\ scheduledCollection = {}
  /\ scheduleAdds = <<>>
  /\ lastOp = NoOp

\* No scheduled message, no message being edited.
InitNoSchedule ==
  /\ scheduledDoc = NoSchedule
  /\ schedOrig = NoSchedule
  /\ schedSends = 0
  /\ schedSkips = 0
  /\ schedTasks = <<>>
  /\ now = 0

InitNoEdit ==
  /\ editDoc = [text |-> "hello", editHistory |-> <<>>]
  /\ editTasks = <<>>
  /\ editClock = 0
  /\ liveBefore = <<>>

\* The hook's pagination state over an empty collection
InitPagination ==
  /\ pagination = InitialPagination
  /\ closurePagination = InitialPagination
  /\ loading = TRUE
  /\ initLoad = "idle"
  /\ loadMoreReqs = <<>>
  /\ lastLoadCooldown = FALSE
  /\ storeReads = 0
  /\ scroll = ScrollIdle
  /\ batchesInFlight = <<>>

InitNoStore == InitPagination /\ store = <<>>

\* A static collection of up to MaxStore messages
InitStaticStore == InitPagination /\ store \in {StaticStore(n) : n \in 0..MaxStore}

\* An empty, a small or a deep static collection
InitScrollStore ==
  InitPagination /\ store \in {StaticStore(n) : n \in {0, ShallowStore, DeepStore}}

\* A few fresh messages, neither delivered nor read
InitReceiptStore ==
  InitPagination /\ store \in {StaticStore(n) : n \in 0..MaxReceiptDocs}

\* A collection of up to a few messages more than the initial page
InitFeedStore == InitPagination /\ store \in {StaticStore(n) : n \in 0..MaxFeedStore}

\* Messages of both participants, two of them from the peer
InitAckStore == InitPagination /\ store = StaticStore(MaxAckDocs)

\* A small collection that may still grow
InitLiveStore ==
  InitPagination /\ store \in {StaticStore(n) : n \in 0..(MaxLiveStore - 1)}

InitHook == InitHookIn({0})

InitClient == InitHook /\ InitNoSchedule /\ InitNoEdit

\* A client in any zone, for the requests of the schedule modal
InitRequest == InitHookIn(ZoneOffsets) /\ InitNoSchedule /\ InitNoEdit /\ InitNoStore

Init == InitClient /\ InitNoStore

InitSched == InitHook /\ InitSchedule /\ InitNoEdit /\ InitNoStore

InitPaging == InitClient /\ InitStaticStore

InitScroll == InitClient /\ InitScrollStore

InitReceipts == InitClient /\ InitReceiptStore

InitScrollLive == InitClient /\ InitLiveStore

InitReadAcks == InitClient /\ InitAckStore

InitFeedPaging == InitClient /\ InitFeedStore

NextFeed == FeedSnapshot1 \/ FeedSnapshot2

SpecFeed == Init /\ [][NextFeed]_vars

NextPresence ==
  \/ InitializePresence
  \/ HeartbeatTick
  \/ HideTab
  \/ ShowTab
  \/ WindowFocus
  \/ StatusAnswer

SpecPresence == Init /\ [][NextPresence]_vars

NextSched ==
  \/ SchedulerTick
  \/ ScheduleReadAnswer
  \/ SkipUpdateAnswer
  \/ SendAnswer
  \/ UpdateAnswer
  \/ ClockAdvance

\* The Reconnection Supervisor with the events that call it and the writers
\* of the connection state.
NextRecovery ==
  \/ InitializePresence
  \/ HeartbeatTick
  \/ HandleOnline
  \/ HandleOffline
  \/ StatusListenerError
  \/ StatusAnswer

SpecRecovery == Init /\ [][NextRecovery]_vars

\* Schedule requests entered in the modal.
NextRequest ==
  \/ HandleScheduleMessage
  \/ ScheduleAddAnswer
  \/ RequestClockTick

SpecRequest == InitRequest /\ [][NextRequest]_vars

\* The peer's presence record, the status listener and the clock.
NextPeer ==
  \/ PeerStatusWrite
  \/ StatusSnapshot
  \/ PresenceClockTick

SpecPeer == Init /\ [][NextPeer]_vars

\* The typing indicator under keystrokes, sends and its timers.
NextTyping ==
  \/ SetTypingStatus
  \/ TypingWriteAnswer
  \/ TypingTimerFires

SpecTyping == Init /\ [][NextTyping]_vars

\* The message listener from mount to unmount.
NextListener ==
  \/ InitializePresence
  \/ StatusAnswer
  \/ InitLoadDone
  \/ InitTimerFires
  \/ ListenerError
  \/ RetryTimerFires
  \/ StatusDepsChange
  \/ UserChange
  \/ Unmount

SpecListener == Init /\ [][NextListener]_vars

SpecSched == InitSched /\ [][NextSched]_vars

\* The scheduler while the owner switches the schedule on and off.
NextSchedToggle ==
  \/ NextSched
  \/ ToggleScheduledMessage

SpecSchedToggle == InitSched /\ [][NextSchedToggle]_vars

NextEdit ==
  \/ EditMessageCall
  \/ EditReadAnswer
  \/ EditWriteAnswer

SpecEdit == Init /\ [][NextEdit]_vars

\* Paging as the application drives it: loadMoreMessages is called by
\* MessageList.handleLoadMore only.
NextPaging ==
  \/ LoadInitialCall
  \/ LoadInitialAnswer
  \/ HandleLoadMore
  \/ LoadMoreAnswer
  \/ Render
  \/ CooldownElapsed

SpecPaging == InitPaging /\ [][NextPaging]_vars

\* Paging with loadMoreMessages called at any moment, rendered or not.
NextLoadMore ==
  \/ LoadInitialCall
  \/ LoadInitialAnswer
  \/ LoadMoreMessages
  \/ LoadMoreAnswer
  \/ Render

SpecLoadMore == InitPaging /\ [][NextLoadMore]_vars

\* One loadMessagesUntil call after the initial load; the store answers every
\* read it is sent.
NextScroll ==
  \/ LoadInitialCall
  \/ LoadInitialAnswer
  \/ Render
  \/ ScrollCall
  \/ DirectLookupAnswer
  \/ ContextAnswer
  \/ ProbeAnswer
  \/ ScrollBatchAnswer

\* The read tracker with the loads and the presence events that feed it.
NextReceipts ==
  \/ LoadInitialCall
  \/ LoadInitialAnswer
  \/ StoreSnapshot
  \/ DeliveredAnswer
  \/ FlushTimerFires
  \/ CommitAnswer
  \/ InitializePresence
  \/ HideTab
  \/ ShowTab
  \/ StatusAnswer

SpecReceipts == InitReceipts /\ [][NextReceipts]_vars

\* The listener's first snapshot next to the paging of the list.
NextFeedPaging ==
  \/ LoadInitialCall
  \/ LoadInitialAnswer
  \/ FirstSnapshot
  \/ HandleLoadMore
  \/ LoadMoreAnswer
  \/ Render
  \/ CooldownElapsed

SpecFeedPaging == InitFeedPaging /\ [][NextFeedPaging]_vars

\* The read tracker of a visible tab with several unread peer messages.
NextReadAcks ==
  \/ LoadInitialCall
  \/ LoadInitialAnswer
  \/ StoreSnapshot
  \/ FlushTimerFires
  \/ CommitAnswer
  \/ InitializePresence
  \/ StatusAnswer

SpecReadAcks == InitReadAcks /\ [][NextReadAcks]_vars

\* One loadMessagesUntil call while messages keep being sent.
NextScrollLive ==
  \/ NextScroll
  \/ MessageSent

SpecScrollLive == InitScrollLive /\ [][NextScrollLive]_vars

SpecScroll ==
  /\ InitScroll
  /\ [][NextScroll]_vars
  /\ WF_vars(DirectLookupAnswer)
  /\ WF_vars(ContextAnswer)
  /\ WF_vars(ProbeAnswer)
  /\ WF_vars(ScrollBatchAnswer)

\* ------------------------------------------------------------------------
\* C1: after any sequence of snapshots of added / modified / removed changes
\* the local list is sorted ascending by creation time and holds no id twice,
\* and a snapshot that only adds ids that were already present leaves the
\* list as it was.
\* ------------------------------------------------------------------------
C1_FeedSortedNoDup ==
  /\ [](IsSortedByTs(messages) /\ NoDuplicateIds(messages))
  /\ [][(lastOp'.op = "snapshot" /\ lastOp'.replay) => messages' = messages]_vars

\* A replayed 'added' for a present id was dropped while the list holds two
\* entries with the same creation time.
C1_Witness ==
  /\ lastOp.op = "snapshot"
  /\ lastOp.replay
  /\ Len(messages) >= 2
  /\ \E i \in 1..(Len(messages) - 1) : messages[i].timestamp = messages[i + 1].timestamp

HideWriteQueued == \E i \in 1..Len(statusQueue) : statusQueue[i].by = "hide"

TuesdayMondayWednesday(d) ==
  /\ d.exists
  /\ d.enabled
  /\ d.recurrence = "custom"
  /\ d.selectedDays = {"Monday", "Wednesday"}
  /\ DayName(d.scheduledDate) = "Tuesday"

\* The first day after date whose weekday is name.
NextWeekday(date, name) ==
  CHOOSE n \in (date + 1)..(date + 7) : DayName(n) = name

OneTickSkipped ==
  /\ TuesdayMondayWednesday(schedOrig)
  /\ schedSkips = 1
  /\ schedTasks = <<>>

C7_Claimed ==
  OneTickSkipped =>
    /\ schedSends = 0
    /\ scheduledDoc.scheduledDate = NextWeekday(schedOrig.scheduledDate, "Monday")

\* What the tick does: nothing is sent and the target is written back as it was.
C7_SkipLeavesTarget ==
  OneTickSkipped =>
    /\ schedSends = 0
    /\ scheduledDoc.scheduledDate = schedOrig.scheduledDate

\* ------------------------------------------------------------------------
\* C8 as claimed: the edit history of a message is, in order, the texts that
\* were live immediately before each applied edit, also when the read and the
\* write of two edits interleave.
\* ------------------------------------------------------------------------
RECURSIVE HistoryTexts(_)
HistoryTexts(history) ==
  IF history = <<>> THEN <<>>
  ELSE <<Head(history).text>> \o HistoryTexts(Tail(history))

C8_Claimed == HistoryTexts(editDoc.editHistory) = liveBefore

\* The sequential scenario of the claim: "hello" -> "hullo" -> "hi".
C8_Sequential ==
  (editDoc.text = "hi" /\ liveBefore = <<"hello", "hullo">>
     /\ HistoryTexts(editDoc.editHistory) = liveBefore)

\* ------------------------------------------------------------------------
\* C4: a loadMoreMessages call that finds pagination.hasMore false issues no
\* store read and leaves the message list and the pagination state as they
\* were; and no step of a loadMoreMessages call (its guard, a page, an empty
\* page, a store failure) ever decreases totalLoaded.
\* ------------------------------------------------------------------------
C4_LoadMoreNoOp ==
  /\ [][(lastOp'.op = "loadMoreCall" /\ ~closurePagination.hasMore) =>
          /\ storeReads' = storeReads
          /\ loadMoreReqs' = loadMoreReqs
          /\ messages' = messages
          /\ pagination' = pagination]_vars
  /\ [][pagination'.totalLoaded >= pagination.totalLoaded]_vars

C4_Witness ==
  /\ lastOp.op = "loadMoreCall"
  /\ lastOp.skipped
  /\ ~closurePagination.hasMore
  /\ ~pagination.hasMore
  /\ pagination.totalLoaded > InitialLimit

\* ------------------------------------------------------------------------
\* C10: over a static store (of 45 messages in particular), whenever hasMore
\* is false totalLoaded equals the number of stored messages, so hasMore does
\* not become false while fewer than all stored messages have been loaded.
\* ------------------------------------------------------------------------
C10_TotalMatchesStore ==
  ~pagination.hasMore => pagination.totalLoaded = Len(store)

C10_Witness ==
  /\ Len(store) = 45
  /\ ~pagination.hasMore
  /\ pagination.totalLoaded = 45
  /\ Len(messages) = 45
  /\ storeReads = 3

\* ------------------------------------------------------------------------
\* C5 as claimed: loadMessagesUntil(id) returns true for every id that is in
\* the store, whatever its depth and whatever the cursor.
\* ------------------------------------------------------------------------
ScrollPresentDone == scroll.phase = "done" /\ scroll.target \in 1..Len(store)

C5_Claimed == ScrollPresentDone => scroll.result = "true"

\* The cursor the walk starts from: pagination's, or the last document of the
\* probing read when pagination has none.
WalkStart(sc) ==
  IF sc.cursor0 # NoCursor THEN sc.cursor0
  ELSE IF Len(store) = 0 THEN NoCursor
  ELSE IF Len(store) < BatchLimit THEN 1
  ELSE Len(store) - BatchLimit + 1

\* The target is among the MaxAttempts * BatchLimit messages older than that cursor.
WithinWalk(sc) ==
  /\ WalkStart(sc) # NoCursor
  /\ sc.target < WalkStart(sc)
  /\ sc.target >= WalkStart(sc) - MaxAttempts * BatchLimit

\* ------------------------------------------------------------------------
\* C5: a loadMessagesUntil call for an id that is in the store terminates.  It
\* returns true when the id is already loaded or both reads of the direct
\* lookup succeed; otherwise the result is the fallback walk's: true only if
\* the id is among the 8 * 50 messages older than the walk's cursor, false only
\* if it is not, and an exception only after a read failed in both walks.
\* ------------------------------------------------------------------------
C5_Outcome ==
  ScrollPresentDone =>
    /\ (scroll.alreadyLoaded \/ scroll.directOk) => scroll.result = "true"
    /\ scroll.result = "true" =>
         (scroll.alreadyLoaded \/ scroll.directOk \/ WithinWalk(scroll))
    /\ scroll.result = "false" => (~scroll.directOk /\ ~WithinWalk(scroll))
    /\ scroll.result = "raised" => scroll.walk = 2

C5_ScrollFinds ==
  /\ []C5_Outcome
  /\ [](scroll.attempts <= MaxAttempts)
  /\ (scroll.phase # "idle") ~> (scroll.phase = "done")

C5_Witness ==
  /\ ScrollPresentDone
  /\ ~scroll.alreadyLoaded
  /\ ~scroll.directOk
  /\ scroll.result = "true"
  /\ scroll.walk = 1
  /\ scroll.attempts = MaxAttempts

\* ------------------------------------------------------------------------
\* C6 as claimed: loadMessagesUntil(id) for an id that is nowhere in the store
\* returns false, and the fallback walk performs at most 8 batch reads.
\* ------------------------------------------------------------------------
C6_Claimed ==
  (scroll.phase = "done" /\ scroll.target = Len(store) + 1) =>
    /\ scroll.result = "false"
    /\ scroll.batchReads <= MaxAttempts

\* ------------------------------------------------------------------------
\* C2 as claimed: in every reachable state of the store a message with
\* read = true also has delivered = true.
\* ------------------------------------------------------------------------
C2_Claimed == \A i \in 1..Len(store) : store[i].read => store[i].delivered

\* ------------------------------------------------------------------------
\* C3 as claimed: no read-ack batch is committed to the store while local
\* presence is Offline, also when the tab is hidden while the commit is awaited.
\* ------------------------------------------------------------------------
C3_Claimed == (lastOp.op = "commitAnswer" /\ ~lastOp.skipped) => isOnlineRef

\* ------------------------------------------------------------------------
\* C3: no read-ack batch is issued while local presence is Offline or the
\* connection is not connected: a flush that finds either leaves the pending
\* set as it is and sends nothing, so an id enqueued while Offline is in no
\* batch before presence is Online again.  (A batch issued while Online may
\* still be applied by the store after the tab was hidden.)
\* ------------------------------------------------------------------------
C3_NoBatchIssuedOffline ==
  [][/\ batchesInFlight' # batchesInFlight /\ Len(batchesInFlight') >= Len(batchesInFlight)
        => (isOnlineRef /\ connectionStateRef = "connected")
     /\ (lastOp'.op = "flush" /\ ~(isOnlineRef /\ connectionStateRef = "connected"))
        => /\ batchesInFlight' = batchesInFlight
           /\ pendingMessagesToMarkReadRef' = pendingMessagesToMarkReadRef
           /\ store' = store]_vars

C3_Witness ==
  /\ lastOp.op = "flush"
  /\ lastOp.skipped
  /\ ~isOnlineRef
  /\ documentHidden
  /\ pendingMessagesToMarkReadRef # {}
  /\ batchesInFlight = <<>>

\* ------------------------------------------------------------------------
\* C11 as claimed: once pagination.hasMore is false, no loadMoreMessages,
\* loadMessagesUntil or loadMessagesInBatches step sets it back to true.
\* ------------------------------------------------------------------------
C11_Claimed == ~lastOp.rearmed

\* ------------------------------------------------------------------------
\* C12 as claimed: for a schedule with enabled = false no run sends the
\* message or changes its target time or its sent flag, also when the toggle
\* is committed between the run's read and its send.
\* ------------------------------------------------------------------------
ScheduleWriteApplied ==
  /\ lastOp.op \in {"sendAnswer", "updateAnswer", "skipUpdateAnswer"}
  /\ ~lastOp.skipped

C12_Claimed == ScheduleWriteApplied => scheduledDoc.enabled

\* ------------------------------------------------------------------------
\* C13 as claimed: the update that follows a send sets sent to true for a
\* schedule with recurrence 'none'; for a repeating schedule it leaves sent
\* false and moves the target time forward.
\* ------------------------------------------------------------------------
FirstSendUpdated ==
  /\ lastOp.op = "updateAnswer"
  /\ ~lastOp.skipped
  /\ schedSends = 1
  /\ schedSkips = 0

C13_Claimed ==
  FirstSendUpdated =>
    IF schedOrig.recurrence = "none"
    THEN scheduledDoc.sent
    ELSE /\ ~scheduledDoc.sent
         /\ scheduledDoc.scheduledDate > schedOrig.scheduledDate

\* ------------------------------------------------------------------------
\* C14: at most one change-feed subscription is active at any time, and the
\* only unsubscribe handle that has not been invoked is the one
\* messageListenerRef holds: every earlier one was invoked before the next
\* subscription was created.
\* ------------------------------------------------------------------------
C14_OneSubscription ==
  /\ Cardinality(ActiveSubscriptions) <= 1
  /\ \A id \in 1..Len(subscriptions) :
       subscriptions[id] # "unsubscribed" => id = messageListenerRef

\* A later subscription is active, created by the retry timer after a cleanup
\* has removed the one before it.
C14_Witness ==
  /\ Len(subscriptions) >= 2
  /\ ActiveSubscriptions = {Len(subscriptions)}
  /\ lastOp.op = "retryTimer"
  /\ ~lastOp.skipped

\* ------------------------------------------------------------------------
\* C15 as claimed: once the listener's error callback has run and its 2 s retry
\* has fired with the component still mounted, a subscription is active again.
\* ------------------------------------------------------------------------
RetriesDone ==
  /\ lastOp.op = "retryTimer"
  /\ retryTimers = 0
  /\ liveRun # 0
  /\ \A run \in 1..Len(initRuns) : initRuns[run] = "done"

C15_Claimed == RetriesDone => ActiveSubscriptions # {}

\* ------------------------------------------------------------------------
\* C16 as claimed: when a read-ack batch commit fails, the pending-read set
\* still contains every id it contained when that flush started.
\* ------------------------------------------------------------------------
CommitFailed == lastOp.op = "commitAnswer" /\ lastOp.skipped

C16_Claimed == CommitFailed => lastOp.ids \subseteq pendingMessagesToMarkReadRef

\* ------------------------------------------------------------------------
\* C17 as claimed: loadInitialMessages and loadMoreMessages add an id to the
\* pending-read set only while the local participant is Online.
\* ------------------------------------------------------------------------
LoadEnqueued ==
  /\ lastOp.op \in {"loadInitialAnswer", "loadMoreAnswer"}
  /\ lastOp.ids # {}
  /\ isInitializedRef

C17_Claimed == LoadEnqueued => isOnlineRef

\* ------------------------------------------------------------------------
\* C18 as claimed: when a load has put a peer-authored message with
\* delivered = false into the local list, a delivered = true write has been
\* issued for it.
\* ------------------------------------------------------------------------
UndeliveredFromPeer(list) ==
  {list[i].id : i \in {j \in 1..Len(list) : list[j].sender = Peer /\ ~list[j].delivered}}

LoadAnswered == lastOp.op \in {"loadInitialAnswer", "loadMoreAnswer"}

C18_Claimed == LoadAnswered => UndeliveredFromPeer(messages) \subseteq deliveredInFlight

\* ------------------------------------------------------------------------
\* C19 as claimed: over the setTypingStatus(true) calls that follow one
\* another with no clear in between, also while an earlier call's write is
\* still awaited, exactly one typing = true write is issued.
\* ------------------------------------------------------------------------
C19_Claimed == trueWrites <= 1

\* ------------------------------------------------------------------------
\* C20 as claimed: whenever the peer is surfaced as online, its last-seen
\* time is within the freshness window of the current time.
\* ------------------------------------------------------------------------
C20_Claimed == peerSurfaced.isOnline => IsRecentlyActive(presenceClock, peerSurfaced.lastSeen)

\* What the handler gives: the entry is fresh at the moment a snapshot is
\* handled.
C20_FreshWhenHandled ==
  (lastOp.op = "statusSnapshot" /\ peerSurfaced.isOnline)
    => IsRecentlyActive(presenceClock, peerSurfaced.lastSeen)

\* ------------------------------------------------------------------------
\* C21: one run of checkAndSendScheduledMessages sends at most one message
\* for the schedule, however far past due its target time is.
\* ------------------------------------------------------------------------
C21_OneSendPerTick == \A i \in 1..Len(schedTasks) : schedTasks[i].sent <= 1

\* A run has sent for a daily schedule that is two or more days overdue.
C21_Witness ==
  \E i \in 1..Len(schedTasks) :
    /\ schedTasks[i].sent = 1
    /\ scheduledDoc.recurrence = "daily"
    /\ schedTasks[i].now - scheduledDoc.scheduledDate >= 2

\* ------------------------------------------------------------------------
\* C22 as claimed: after a repeating schedule has fired, sent is false and
\* the target is the old one plus 1 day (daily), 7 days (weekly), 1 month
\* (monthly) or, for custom, the first later day within 7 days whose weekday
\* is selected.
\* ------------------------------------------------------------------------
FirstLaterSelectedDay(date, selectedDays) ==
  IF \E n \in (date + 1)..(date + 7) : DayName(n) \in selectedDays
  THEN CHOOSE n \in (date + 1)..(date + 7) :
         /\ DayName(n) \in selectedDays
         /\ \A k \in (date + 1)..(n - 1) : DayName(k) \notin selectedDays
  ELSE date + 7

ClaimedNextTarget(d) ==
  CASE d.recurrence = "daily" -> d.scheduledDate + 1
    [] d.recurrence = "weekly" -> d.scheduledDate + 7
    [] d.recurrence = "monthly" -> d.scheduledDate + MonthLengthAt(d.scheduledDate)
    [] OTHER -> FirstLaterSelectedDay(d.scheduledDate, d.selectedDays)

RepeatingFired ==
  /\ FirstSendUpdated
  /\ schedOrig.recurrence # "none"
  /\ schedOrig.recurrence = "custom" => schedOrig.selectedDays # {}

C22_Claimed ==
  RepeatingFired =>
    /\ ~scheduledDoc.sent
    /\ scheduledDoc.scheduledDate = ClaimedNextTarget(schedOrig)

\* ------------------------------------------------------------------------
\* C23 as claimed: no document is written to scheduledMessages whose combined
\* date and time was not in the future when the request was made, or that is
\* 'custom' with an empty day set.
\* ------------------------------------------------------------------------
WrittenSchedules == scheduledCollection \cup {scheduleAdds[i] : i \in 1..Len(scheduleAdds)}

C23_Claimed ==
  \A d \in WrittenSchedules :
    /\ d.scheduledDate > d.requestedAt
    /\ ~(d.request.recurrence = "custom" /\ d.request.selectedDays = {})

\* What the modal's tests give: the date and time as the modal combines them
\* were in the future, and a custom request named a day.
C23_ModalTestsPassed ==
  \A d \in WrittenSchedules :
    /\ LocalDateTime(d.request.day, d.request.slot) > d.requestedAt
    /\ ~(d.request.recurrence = "custom" /\ d.request.selectedDays = {})

\* ------------------------------------------------------------------------
\* C24 as claimed: a heartbeat write that fails while the tab is visible
\* leaves local presence Online.
\* ------------------------------------------------------------------------
HeartbeatFailedVisible ==
  /\ lastOp.op = "heartbeatAnswer"
  /\ lastOp.skipped
  /\ ~documentHidden

C24_Claimed == HeartbeatFailedVisible => isOnlineRef

\* ------------------------------------------------------------------------
\* C25 as claimed: the connection state does not become connected when the
\* presence write of the recovery attempt was rejected.
\* ------------------------------------------------------------------------
RecoveryWriteRejected == lastOp.op = "recoveryAnswer" /\ lastOp.skipped

C25_Claimed == RecoveryWriteRejected => connectionStateRef # "connected"

\* ------------------------------------------------------------------------
\* C26 as claimed: when the presence write of a recovery attempt fails, the
\* connection state is left disconnected and the 5 s retry timer is armed.
\* ------------------------------------------------------------------------
C26_Claimed ==
  RecoveryWriteRejected => (connectionStateRef = "disconnected" /\ reconnectionTimeoutRef)

\* ------------------------------------------------------------------------
\* C27 as claimed: at most one recovery attempt is in progress at any time.
\* ------------------------------------------------------------------------
C27_Claimed == Cardinality(RecoveriesInProgress) <= 1

\* ------------------------------------------------------------------------
\* C28: the browser's offline event leaves the connection state disconnected
\* and local presence Offline, whatever the connection state was.
\* ------------------------------------------------------------------------
C28_OfflineForcesDisconnected ==
  lastOp.op = "offline" => (connectionStateRef = "disconnected" /\ ~isOnlineRef)

\* The event arrived while a recovery attempt was awaiting its write.
C28_Witness ==
  /\ lastOp.op = "offline"
  /\ RecoveriesInProgress # {}
  /\ connectionStateRef = "disconnected"

\* ------------------------------------------------------------------------
\* C29 as claimed: at most one loadMoreMessages fetch is in flight at any
\* time, and no page is fetched again while its fetch is outstanding.
\* ------------------------------------------------------------------------
C29_Claimed ==
  /\ Len(loadMoreReqs) <= 1
  /\ \A i, j \in 1..Len(loadMoreReqs) : loadMoreReqs[i] = loadMoreReqs[j] => i = j

\* ------------------------------------------------------------------------
\* C30 as claimed: a pending-read set that was retained is committed once
\* presence is Online and the connection is connected, without a new peer
\* message.  The only caller of batchMarkMessagesAsRead is the flush timer,
\* so a retained set with no commit outstanding needs an armed timer.
\* ------------------------------------------------------------------------
RetainedAndReady ==
  /\ pendingMessagesToMarkReadRef # {}
  /\ batchesInFlight = <<>>
  /\ FlushAllowed(isOnlineRef, connectionStateRef)

C30_Claimed == RetainedAndReady => markReadTimeoutRef

\* ------------------------------------------------------------------------
\* C31 as claimed: every id that batchMarkMessagesAsRead removes from the
\* pending-read set was part of the batch that was committed.
\* ------------------------------------------------------------------------
C31_Claimed == lastOp.op = "commitAnswer" => lastOp.removed \subseteq lastOp.ids

\* ------------------------------------------------------------------------
\* C32 as claimed: the local list holds no id twice and is sorted by creation
\* time, whatever the interleaving of feed snapshots and prepended pages.
\* ------------------------------------------------------------------------
C32_Claimed == NoDuplicateIds(messages) /\ IsSortedByTs(messages)

\* ------------------------------------------------------------------------
\* C33 as claimed: a schedule with recurrence 'none' causes at most one
\* message to be created, whatever the interleaving of the scheduler runs.
\* ------------------------------------------------------------------------
C33_Claimed == (scheduledDoc.exists /\ scheduledDoc.recurrence = "none") => schedSends <= 1

\* ------------------------------------------------------------------------
\* C34 as claimed: a due 'custom' schedule whose target falls on a weekday
\* that is not selected is moved forward by the scheduler runs until it lands
\* on a selected weekday, and then it fires.  Every applied skip has moved the
\* target forward.
\* ------------------------------------------------------------------------
SkipsApplied == IsSkippedDay(schedOrig) /\ schedSkips >= 1

C34_Claimed == SkipsApplied => scheduledDoc.scheduledDate > schedOrig.scheduledDate

\* What the runs do: the target stays where it was and nothing is ever sent.
C34_NeverFires ==
  IsSkippedDay(schedOrig) =>
    (schedSends = 0 /\ scheduledDoc.scheduledDate = schedOrig.scheduledDate)

\* ------------------------------------------------------------------------
\* C35 as claimed: after initialization the processing of a presence snapshot,
\* with the effect run that its setUserStatuses causes, leaves local presence
\* Online and the heartbeat timer armed while the tab is visible and the
\* component is mounted.
\* ------------------------------------------------------------------------
SnapshotProcessed == lastOp.op = "statusDepsChange" /\ liveRun # 0 /\ ~documentHidden

C35_Claimed == SnapshotProcessed => (isOnlineRef /\ heartbeatRefLive /\ heartbeatTimers = 1)

\* ------------------------------------------------------------------------
\* C36 as claimed: a peer message that the feed reported while local presence
\* was Offline is marked read after presence has returned to Online, with no
\* further change of the message.  Once presence is Online again and the read
\* tracker has nothing left to do, every peer message of the list is read.
\* ------------------------------------------------------------------------
ReadTrackerIdle ==
  /\ isOnlineRef
  /\ connectionStateRef = "connected"
  /\ ~documentHidden
  /\ statusQueue = <<>>
  /\ pendingMessagesToMarkReadRef = {}
  /\ ~markReadTimeoutRef
  /\ batchesInFlight = <<>>

C36_Claimed ==
  ReadTrackerIdle => \A id \in reportedHidden : id \in 1..Len(store) => store[id].read

\* ------------------------------------------------------------------------
\* C37 as claimed: after a failed heartbeat write in a visible tab the timer
\* ticks go on writing online = true, with no focus, visibility or network
\* event: no tick of a visible tab returns without a write.
\* ------------------------------------------------------------------------
VisibleTick == lastOp.op = "heartbeat" /\ ~documentHidden

C37_Claimed == VisibleTick => ~lastOp.skipped

\* Without a rejected write the ticks of a visible tab do write.
C37_TicksWhileOnline == (VisibleTick /\ isOnlineRef) => ~lastOp.skipped

\* ------------------------------------------------------------------------
\* C38 as claimed: a 'removed' change notification for a peer message causes
\* no store write for that message.
\* ------------------------------------------------------------------------
C38_Claimed == lastOp.op = "snapshot" => lastOp.ids = {}

\* ------------------------------------------------------------------------
\* C39 as claimed: at most one heartbeat interval timer is armed at any time,
\* and none while the tab is hidden with no focus event since the hide.
\* ------------------------------------------------------------------------
C39_NoneWhileHidden == (documentHidden /\ sinceHide.hidden) => heartbeatTimers = 0

C39_Claimed == heartbeatTimers <= 1 /\ C39_NoneWhileHidden

\* ------------------------------------------------------------------------
\* C40 as claimed: loadMessagesUntil never raises to its caller; when a store
\* read fails it returns false.
\* ------------------------------------------------------------------------
C40_Claimed == scroll.result # "raised"

\* A failed direct lookup or a failed first walk alone is caught.
C40_FirstFailureCaught == scroll.result = "raised" => scroll.walk = 2

====
